---------------------------- MODULE Spec2Model ----------------------------
(***************************************************************************)
(* A model of the extraction pipeline of `minutes`                         *)
(* (src/src/minutes/extractor.py): chunk_transcript, extract_structured,   *)
(* process_transcript, merge_results and cleanup_result.                   *)
(*                                                                         *)
(* Strings are sequences of one-character strings.  Positions keep the     *)
(* 0-based numbering of the Python source; Slice and CharAt translate to   *)
(* the 1-based sequences of TLA+.                                          *)
(***************************************************************************)
EXTENDS Integers, Sequences, FiniteSets, TLC

VARIABLES
    \* ---- chunk_transcript(text, max_size, overlap) ----
    text,        \* the argument text
    max_size,    \* the argument max_size
    overlap,     \* the argument overlap
    start,       \* the loop variable start
    chunks,      \* the list chunks
    starts,      \* the value of start at each chunks.append (line 236)
    cpc,         \* position in chunk_transcript: "call", "loop", "done"
    \* ---- merge_results(results) ----
    rs,          \* the argument results
    deduped,     \* merged after the same-category dedup (line 287)
    merged,      \* the value merge_results returns
    merged2,     \* merge_results([merged])
    mpc,         \* "input", "deduped", "merged", "remerged"
    \* ---- process_transcript(backend, config, transcript) ----
    transcript,      \* the argument transcript
    max_chunk_size,  \* config.max_chunk_size
    chunk_overlap,   \* config.chunk_overlap
    max_retries,     \* config.max_retries
    ppc,         \* "call", "loop", "attempt", "merge", "cleanup", "done",
                 \* "raised" (an exception left process_transcript)
    path,        \* "single" (line 432) or "chunked" (line 435), else "none"
    pchunks,     \* the list chunks of process_transcript
    ci,          \* the 1-based index of the chunk of line 440
    attempt,     \* the loop variable attempt of extract_structured
    outcomes,    \* how each attempt on the current chunk ended
    results,     \* the list results
    presult,     \* result (line 432) or merged (line 447)
    returned,    \* <<r>> once process_transcript has returned r
    exc,         \* the exception that left process_transcript, or "none"
    exlog,       \* the calls of extract_structured, in order
    mergeLog,    \* the arguments of the calls of merge_results
    cleanupLog,  \* the arguments of the calls of cleanup_result
    \* ---- extract_json_block(text) ----
    jobj,        \* the object that was serialised into jtext, or NoObject
    jtext,       \* the argument text
    jout,        \* what extract_json_block did: returned a string or raised
    jdecoded,    \* json.loads of the returned string
    jpc,         \* "object", "text", "extracted", "decoded"
    \* ---- cleanup_result(result, transcript) ----
    cresult,     \* the argument result
    ctranscript, \* the argument transcript
    cleaned,     \* the value cleanup_result returns
    clpc,        \* "call", "done"
    \* ---- DedupStore ----
    dfile,       \* the content of .dedup.json, or NoFile
    dtmp,        \* the content of .dedup.tmp, or NoFile
    fileBefore,  \* the content of .dedup.json when the record call began
    writer,      \* the instance of the current or last record call
    stores,      \* self._store of each DedupStore instance
    opened,      \* the instances that have been constructed
    unopened,    \* the instances that are constructed later
    loaded,      \* what each instance loaded when it was constructed
    recorded,    \* per instance and hash, the <<output_file, schema_version>>
                 \* of its most recent record call, <<>> when there is none
    synced,      \* the instances that wrote or loaded the file as it is now
    nrecords,    \* the number of record calls made
    answer,      \* the last is_processed call and what it returned
    spc,         \* "run", or "saving" inside save
    \* ---- the output writers ----
    oclock,      \* the wall clock, in seconds
    mdfiles,     \* the content of the markdown file of each path, or NoFile
    indexfile,   \* the content of index.json, or NoFile
    indextmp,    \* the content of index.json.tmp, or NoFile
    opc,         \* "run", or the writer that is running: "markdown",
                 \* "glossary", "index"
    otarget,     \* the path of the markdown file that is being written
    ocontent,    \* the text the running writer writes
    obefore,     \* the target files as they were when the writer was called
    oarg,        \* the result and the clock's second of the running
                 \* write_session_markdown
    mdcalls,     \* the calls of write_session_markdown that have returned
    ixcalls,     \* the arguments of the calls of update_index
    ncalls,      \* the number of calls made
    \* ---- pipe_to_memory(result, session_id, project_key) ----
    memResult,   \* the argument result
    memEndpoint, \* the environment variable AUTOMEM_ENDPOINT
    memKey,      \* the environment variable AUTOMEM_API_KEY
    memUrl,      \* url
    memQueue,    \* the items the loops have still to visit
    memPosts,    \* the calls of requests.post, in order, with their outcome
    memStored,   \* stored
    memErrors,   \* errors
    memReturned, \* the dict pipe_to_memory returned
    mempc,       \* "call", "loop", "done"
    \* ---- parse_file(file_path) ----
    pfile,       \* the lines of the file
    psuffix,     \* path.suffix
    pexists,     \* path.exists()
    putf8,       \* the bytes of the file are UTF-8
    pjsonl,      \* what parse_jsonl did inside the try block
    pout,        \* what parse_file returned or raised
    parsepc      \* "call", "try", "fallback", "done"

chunkVars == <<text, max_size, overlap, start, chunks, starts, cpc>>

mergeVars == <<rs, deduped, merged, merged2, mpc>>

procVars ==
    <<transcript, max_chunk_size, chunk_overlap, max_retries, ppc, path,
      pchunks, ci, attempt, outcomes, results, presult, returned, exc, exlog,
      mergeLog, cleanupLog>>

jsonVars == <<jobj, jtext, jout, jdecoded, jpc>>

cleanVars == <<cresult, ctranscript, cleaned, clpc>>

storeVars ==
    <<dfile, dtmp, fileBefore, writer, stores, opened, unopened, loaded,
      recorded, synced, nrecords, answer, spc>>

outVars ==
    <<oclock, mdfiles, indexfile, indextmp, opc, otarget, ocontent, obefore,
      oarg, mdcalls, ixcalls, ncalls>>

memVars ==
    <<memResult, memEndpoint, memKey, memUrl, memQueue, memPosts, memStored,
      memErrors, memReturned, mempc>>

parseVars == <<pfile, psuffix, pexists, putf8, pjsonl, pout, parsepc>>

vars ==
    <<chunkVars, mergeVars, procVars, jsonVars, cleanVars, storeVars, outVars,
      memVars, parseVars>>

\* What the actions of one entry point leave alone
notChunkVars == <<mergeVars, procVars, jsonVars, cleanVars, storeVars, outVars, memVars,
      parseVars>>

notMergeVars == <<chunkVars, procVars, jsonVars, cleanVars, storeVars, outVars, memVars,
      parseVars>>

notProcVars == <<chunkVars, mergeVars, jsonVars, cleanVars, storeVars, outVars, memVars,
      parseVars>>

notJsonVars == <<chunkVars, mergeVars, procVars, cleanVars, storeVars, outVars, memVars,
      parseVars>>

notCleanVars == <<chunkVars, mergeVars, procVars, jsonVars, storeVars, outVars, memVars,
      parseVars>>

notStoreVars == <<chunkVars, mergeVars, procVars, jsonVars, cleanVars, outVars, memVars,
      parseVars>>

notOutVars ==
    <<chunkVars, mergeVars, procVars, jsonVars, cleanVars, storeVars, memVars,
      parseVars>>

notMemVars ==
    <<chunkVars, mergeVars, procVars, jsonVars, cleanVars, storeVars, outVars,
      parseVars>>

notParseVars ==
    <<chunkVars, mergeVars, procVars, jsonVars, cleanVars, storeVars, outVars,
      memVars>>

-----------------------------------------------------------------------------
(* Python helpers *)

Min(a, b) == IF a <= b THEN a ELSE b

Max(a, b) == IF a >= b THEN a ELSE b

\* s[lo:hi] for 0 <= lo, hi (Python slice of a str)
Slice(s, lo, hi) == SubSeq(s, lo + 1, Min(hi, Len(s)))

\* str.find(sub) >= 0 / `sub in s`
Contains(s, sub) ==
    \E i \in 0..(Len(s) - Len(sub)) : Slice(s, i, i + Len(sub)) = sub

RFind_First(s, sub, lo, hi) ==
    LET hits == {i \in lo..(hi - Len(sub)) : Slice(s, i, i + Len(sub)) = sub}
    IN  IF hits = {} THEN -1 ELSE CHOOSE i \in hits : \A j \in hits : i <= j

\* s.rfind(sub, lo, hi) for 0 <= lo, hi <= len(s): the highest index i with
\* lo <= i, i + len(sub) <= hi and s[i:i+len(sub)] == sub, or -1
RFind(s, sub, lo, hi) ==
    LET hits == {i \in lo..(hi - Len(sub)) : Slice(s, i, i + Len(sub)) = sub}
    IN  IF hits = {} THEN -1 ELSE CHOOSE i \in hits : \A j \in hits : j <= i

-----------------------------------------------------------------------------
(* Bounds of the chunking specification *)

MaxTextLen == 5

MaxSize == 4

MaxOverlap == 2

NL == "\n"

ChunkAlphabet == {"a", NL}

RECURSIVE StringsUpTo(_, _)
StringsUpTo(alphabet, n) ==
    IF n = 0 THEN {<<>>}
    ELSE LET shorter == StringsUpTo(alphabet, n - 1)
         IN  shorter \cup {Append(s, c) : s \in {t \in shorter : Len(t) = n - 1},
                                          c \in alphabet}

-----------------------------------------------------------------------------
(* chunk_transcript *)

\* The end of the chunk that starts at st (lines 224-234)
ChunkEnd(t, ms, st) ==
    LET end == Min(st + ms, Len(t))
    IN  IF end < Len(t)
        THEN LET search_start == Max(st, end - (ms \div 4))
                 para_break == RFind(t, <<NL, NL>>, search_start, end)
             IN  IF para_break # -1 /\ para_break > st
                 THEN para_break + 2
                 ELSE end
        ELSE end

\* A next start that skips the character after the chunk
NextStart_Skip(st, end, ov) == end + 1

\* A next start without overlap
NextStart_NoOverlap(st, end, ov) == end

\* The next value of start after a chunk [st, end) (lines 240-243)
NextStart(st, end, ov) ==
    LET new_start == end - ov
    IN  IF new_start <= st THEN end ELSE new_start

ChunkInit ==
    /\ text \in StringsUpTo(ChunkAlphabet, MaxTextLen)
    /\ max_size \in 0..MaxSize
    /\ overlap \in 0..MaxOverlap
    /\ start = 0
    /\ chunks = <<>>
    /\ starts = <<>>
    /\ cpc = "call"

\* The smallest max_size whose search window (max_size // 4 characters) can
\* hold two paragraph breaks
ParaSize == 12

ParaTextLen == 13

\* chunk_transcript on texts longer than max_size, with a max_size whose
\* window can hold paragraph breaks
ParagraphInit ==
    /\ max_size = ParaSize
    /\ text \in UNION {[1..n -> ChunkAlphabet] :
                          n \in (ParaSize + 1)..ParaTextLen}
    /\ overlap \in 0..MaxOverlap
    /\ start = 0
    /\ chunks = <<>>
    /\ starts = <<>>
    /\ cpc = "call"

\* lines 216-220: the early return, or the loop's initialisation
ChunkEnter ==
    /\ cpc = "call"
    /\ IF Len(text) <= max_size
       THEN /\ chunks' = <<text>>
            /\ cpc' = "done"
       ELSE /\ chunks' = <<>>
            /\ cpc' = "loop"
    /\ start' = 0
    /\ starts' = <<>>
    /\ UNCHANGED <<text, max_size, overlap>>
    /\ UNCHANGED notChunkVars

\* lines 222-243: one iteration of the while loop.  A run whose start does
\* not advance appends chunks for ever; it is followed for len(text) + 1
\* iterations, one more than any advancing run can make.
ChunkStep ==
    /\ cpc = "loop"
    /\ start < Len(text)
    /\ Len(chunks) <= Len(text)
    /\ LET end == ChunkEnd(text, max_size, start)
       IN  /\ chunks' = Append(chunks, Slice(text, start, end))
           /\ starts' = Append(starts, start)
           /\ start' = NextStart(start, end, overlap)
    /\ UNCHANGED <<text, max_size, overlap, cpc>>
    /\ UNCHANGED notChunkVars

\* line 245: the loop condition is false
ChunkReturn ==
    /\ cpc = "loop"
    /\ ~(start < Len(text))
    /\ chunks' = IF chunks # <<>> THEN chunks ELSE <<text>>
    /\ cpc' = "done"
    /\ UNCHANGED <<text, max_size, overlap, start, starts>>
    /\ UNCHANGED notChunkVars

ChunkIdle ==
    /\ text = <<>>
    /\ max_size = 0
    /\ overlap = 0
    /\ start = 0
    /\ chunks = <<>>
    /\ starts = <<>>
    /\ cpc = "idle"

ChunkNext == ChunkEnter \/ ChunkStep \/ ChunkReturn

-----------------------------------------------------------------------------
(* The models of minutes.models: strings default to the empty string *)

Decision(summary) ==
    [summary |-> summary, owner |-> <<>>, rationale |-> <<>>, date |-> <<>>]

Idea(title) ==
    [title |-> title, description |-> <<>>,
     category |-> <<"s", "u", "g", "g", "e", "s", "t", "i", "o", "n">>]

Question(qtext) == [text |-> qtext, context |-> <<>>, owner |-> <<>>]

ActionItem(description) ==
    [description |-> description, owner |-> <<>>, deadline |-> <<>>]

Concept(name) == [name |-> name, definition |-> <<>>]

Term(term) == [term |-> term, definition |-> <<>>, context |-> <<>>]

\* ExtractionResult()
EmptyResult ==
    [decisions |-> <<>>, ideas |-> <<>>, questions |-> <<>>,
     action_items |-> <<>>, concepts |-> <<>>, terms |-> <<>>, tldr |-> <<>>]

-----------------------------------------------------------------------------
(* str.lower, for the ASCII letters *)

UpperLetters ==
    <<"A", "B", "C", "D", "E", "F", "G", "H", "I", "J", "K", "L", "M",
      "N", "O", "P", "Q", "R", "S", "T", "U", "V", "W", "X", "Y", "Z">>

LowerLetters ==
    <<"a", "b", "c", "d", "e", "f", "g", "h", "i", "j", "k", "l", "m",
      "n", "o", "p", "q", "r", "s", "t", "u", "v", "w", "x", "y", "z">>

LowerChar(c) ==
    IF \E i \in 1..26 : UpperLetters[i] = c
    THEN LowerLetters[CHOOSE i \in 1..26 : UpperLetters[i] = c]
    ELSE c

RECURSIVE Lower(_)
Lower(s) ==
    IF s = <<>> THEN <<>>
    ELSE <<LowerChar(Head(s))>> \o Lower(Tail(s))

-----------------------------------------------------------------------------
(* difflib.SequenceMatcher(None, a, b).ratio(), for len(b) < 200 (below    *)
(* that length no element of b is treated as junk)                         *)

\* The length of the common run of a from i and b from j, inside a[..ahi)
\* and b[..bhi)
RECURSIVE CommonRun(_, _, _, _, _, _)
CommonRun(a, b, i, j, ahi, bhi) ==
    IF i < ahi /\ j < bhi /\ a[i + 1] = b[j + 1]
    THEN 1 + CommonRun(a, b, i + 1, j + 1, ahi, bhi)
    ELSE 0

\* The longest of the runs <<length, i, j>>; of those the one with the least
\* i, and of those the one with the least j
LongestRun(runs) ==
    CHOOSE r \in runs :
        \A q \in runs :
            \/ r[1] > q[1]
            \/ r[1] = q[1] /\ r[2] < q[2]
            \/ r[1] = q[1] /\ r[2] = q[2] /\ r[3] <= q[3]

\* find_longest_match(alo, ahi, blo, bhi), for alo < ahi and blo < bhi: the
\* longest matching block; of those the one that starts earliest in a, and
\* of those the one that starts earliest in b; size 0 when nothing matches
FindLongestMatch(a, b, alo, ahi, blo, bhi) ==
    CHOOSE m \in {LongestRun(runs) :
                     runs \in {{<<CommonRun(a, b, i, j, ahi, bhi), i, j>> :
                                  i \in alo..(ahi - 1),
                                  j \in blo..(bhi - 1)}}} : TRUE

\* The sum of the sizes of get_matching_blocks(): the longest match
\* <<k, i, j>>, then the same on the pieces to its left and to its right
RECURSIVE MatchingTotal(_, _, _, _, _, _)
MatchingTotal(a, b, alo, ahi, blo, bhi) ==
    IF alo >= ahi \/ blo >= bhi
    THEN 0
    ELSE CHOOSE total \in
             {IF m[1] = 0
              THEN 0
              ELSE m[1] + MatchingTotal(a, b, alo, m[2], blo, m[3])
                        + MatchingTotal(a, b, m[2] + m[1], ahi,
                                        m[3] + m[1], bhi) :
                 m \in {FindLongestMatch(a, b, alo, ahi, blo, bhi)}} : TRUE

Matches(a, b) == MatchingTotal(a, b, 0, Len(a), 0, Len(b))

\* threshold = 0.8 as the fraction ThresholdNum / ThresholdDen
ThresholdNum == 4

ThresholdDen == 5

RatioAtLeastThreshold_Strict(a, b) ==
    /\ Len(a) + Len(b) > 0
    /\ ThresholdDen * 2 * Matches(a, b) > ThresholdNum * (Len(a) + Len(b))

RatioAtLeastThreshold_Loose(a, b) ==
    \/ Len(a) + Len(b) = 0
    \/ 5 * 2 * Matches(a, b) >= 3 * (Len(a) + Len(b))

\* SequenceMatcher(None, a, b).ratio() >= threshold, where ratio() is
\* 2.0 * matches / (len(a) + len(b)), and 1.0 when both are empty.  The
\* float comparison agrees with the exact one for strings this short.
RatioAtLeastThreshold(a, b) ==
    \/ Len(a) + Len(b) = 0
    \/ ThresholdDen * 2 * Matches(a, b) >= ThresholdNum * (Len(a) + Len(b))

-----------------------------------------------------------------------------
(* merge_results and its helpers *)

\* [x for r in rlist for x in r.<field>]
RECURSIVE ConcatField(_, _)
ConcatField(rlist, field) ==
    IF rlist = <<>> THEN <<>>
    ELSE Head(rlist)[field] \o ConcatField(Tail(rlist), field)

IsDuplicateOfKept_WithItself(item, kept, attr) ==
    \E k \in 1..(Len(kept) + 1) :
        RatioAtLeastThreshold(item[attr], Append(kept, item)[k][attr])

\* is_duplicate of the inner loop (lines 323-329)
IsDuplicateOfKept(item, kept, attr) ==
    \E k \in 1..Len(kept) : RatioAtLeastThreshold(item[attr], kept[k][attr])

RECURSIVE DedupLoop(_, _, _)
DedupLoop(items, kept, attr) ==
    IF items = <<>> THEN kept
    ELSE DedupLoop(Tail(items),
                   IF IsDuplicateOfKept(Head(items), kept, attr)
                   THEN kept
                   ELSE Append(kept, Head(items)),
                   attr)

_deduplicate_by_similarity(items, attr) ==
    IF items = <<>> THEN <<>> ELSE DedupLoop(items, <<>>, attr)

IsCrossDuplicate_CaseSensitive(item, items_attr, reference, reference_attr) ==
    \E r \in 1..Len(reference) :
        RatioAtLeastThreshold(item[items_attr], reference[r][reference_attr])

IsCrossDuplicate_Loose(item, items_attr, reference, reference_attr) ==
    \E r \in 1..Len(reference) :
        LET x == Lower(item[items_attr])
            y == Lower(reference[r][reference_attr])
        IN  10 * 2 * Matches(x, y) >= 7 * (Len(x) + Len(y))

\* is_dup of _cross_category_dedup (lines 348-352)
IsCrossDuplicate(item, items_attr, reference, reference_attr) ==
    \E r \in 1..Len(reference) :
        RatioAtLeastThreshold(Lower(item[items_attr]),
                              Lower(reference[r][reference_attr]))

RECURSIVE CrossLoop(_, _, _, _, _)
CrossLoop(items, kept, items_attr, reference, reference_attr) ==
    IF items = <<>> THEN kept
    ELSE CrossLoop(Tail(items),
                   IF IsCrossDuplicate(Head(items), items_attr,
                                       reference, reference_attr)
                   THEN kept
                   ELSE Append(kept, Head(items)),
                   items_attr, reference, reference_attr)

_cross_category_dedup(items, items_attr, reference, reference_attr) ==
    IF items = <<>> \/ reference = <<>>
    THEN items
    ELSE CrossLoop(items, <<>>, items_attr, reference, reference_attr)

RECURSIVE ExactLoop(_, _, _, _)
ExactLoop(items, seen, kept, attr) ==
    IF items = <<>> THEN kept
    ELSE IF Head(items)[attr] \notin seen
         THEN ExactLoop(Tail(items), seen \cup {Head(items)[attr]},
                        Append(kept, Head(items)), attr)
         ELSE ExactLoop(Tail(items), seen, kept, attr)

_deduplicate_by_exact_attr_Similar(items, attr) ==
    _deduplicate_by_similarity(items, attr)

_deduplicate_by_exact_attr(items, attr) ==
    IF items = <<>> THEN <<>> ELSE ExactLoop(items, {}, <<>>, attr)

LongestTldr_LastOfLongest(rlist) ==
    LET nonempty == {i \in 1..Len(rlist) : rlist[i].tldr # <<>>}
    IN  IF nonempty = {} THEN <<>>
        ELSE rlist[CHOOSE i \in nonempty :
                        \A j \in nonempty :
                            \/ Len(rlist[j].tldr) < Len(rlist[i].tldr)
                            \/ /\ Len(rlist[j].tldr) = Len(rlist[i].tldr)
                               /\ i >= j].tldr

\* max(tldrs, key=len) over the non-empty tldrs, "" when there is none: the
\* first of the longest
LongestTldr(rlist) ==
    LET nonempty == {i \in 1..Len(rlist) : rlist[i].tldr # <<>>}
    IN  IF nonempty = {} THEN <<>>
        ELSE rlist[CHOOSE i \in nonempty :
                        \A j \in nonempty :
                            \/ Len(rlist[j].tldr) < Len(rlist[i].tldr)
                            \/ /\ Len(rlist[j].tldr) = Len(rlist[i].tldr)
                               /\ i <= j].tldr

\* lines 265-287: merged after the four same-category dedups
SameCategoryDedup(rlist) ==
    [EmptyResult EXCEPT
        !.decisions = _deduplicate_by_similarity(
                          ConcatField(rlist, "decisions"), "summary"),
        !.ideas = _deduplicate_by_similarity(
                          ConcatField(rlist, "ideas"), "title"),
        !.questions = _deduplicate_by_similarity(
                          ConcatField(rlist, "questions"), "text"),
        !.action_items = _deduplicate_by_similarity(
                          ConcatField(rlist, "action_items"), "description")]

\* lines 289-309: the cross-category dedups, the exact dedups and the tldr
FinishMerge(rlist, m) ==
    [m EXCEPT
        !.action_items = _cross_category_dedup(
                             m.action_items, "description",
                             m.decisions, "summary"),
        !.ideas = _cross_category_dedup(
                             m.ideas, "title", m.decisions, "summary"),
        !.concepts = _deduplicate_by_exact_attr(
                             ConcatField(rlist, "concepts"), "name"),
        !.terms = _deduplicate_by_exact_attr(
                             ConcatField(rlist, "terms"), "term"),
        !.tldr = LongestTldr(rlist)]

merge_results(rlist) ==
    IF rlist = <<>> THEN EmptyResult
    ELSE FinishMerge(rlist, SameCategoryDedup(rlist))

-----------------------------------------------------------------------------
(* The strings of the examples *)

Str_UseGrpc ==
    <<"U", "s", "e", " ", "g", "R", "P", "C">>

Str_UseGrpcForApis ==
    <<"U", "s", "e", " ", "g", "R", "P", "C", " ", "f", "o", "r", " ", "A",
      "P", "I", "s">>

Str_UsePostgres ==
    <<"U", "s", "e", " ", "P", "o", "s", "t", "g", "r", "e", "S", "Q", "L",
      " ", "f", "o", "r", " ", "t", "h", "e", " ", "d", "a", "t", "a", "b",
      "a", "s", "e">>

Str_SetUpPostgres ==
    <<"S", "e", "t", " ", "u", "p", " ", "P", "o", "s", "t", "g", "r", "e",
      "S", "Q", "L", " ", "d", "a", "t", "a", "b", "a", "s", "e">>

Str_QaTeam ==
    <<"Q", "A", " ", "t", "e", "a", "m">>

-----------------------------------------------------------------------------
(* The merge specification: merge_results on every list of results of      *)
(* bounded size, then on the list holding its own result                   *)

\* The size of an argument: its results plus their items and tldrs
MaxInputSize == 4

Txt_ab == <<"a", "b">>

Txt_abc == <<"a", "b", "c">>

Txt_abcd == <<"a", "b", "c", "d">>

Txt_AB == <<"A", "B">>

MergeTexts == {Txt_ab, Txt_abc, Txt_abcd, Txt_AB}

\* One more item for the last result of an argument
ItemChoices ==
    {[field |-> "decisions", item |-> Decision(t)] : t \in MergeTexts}
    \cup {[field |-> "ideas", item |-> Idea(t)] : t \in MergeTexts}
    \cup {[field |-> "questions", item |-> Question(t)] : t \in MergeTexts}
    \cup {[field |-> "action_items", item |-> ActionItem(t)] : t \in MergeTexts}
    \cup {[field |-> "concepts", item |-> Concept(t)] :
              t \in {Txt_ab, Txt_AB, Txt_abc}}
    \cup {[field |-> "terms", item |-> Term(t)] :
              t \in {Txt_ab, Txt_AB, Txt_abc}}

TldrChoices == {Txt_ab, Txt_AB, Txt_abc}

\* The arguments one step larger than those of `inputs`
Grow(inputs) ==
    {Append(x, EmptyResult) : x \in inputs}
    \cup {[x EXCEPT ![Len(x)][c.field] = Append(@, c.item)] :
             x \in {y \in inputs : y # <<>>}, c \in ItemChoices}
    \cup {[x EXCEPT ![Len(x)].tldr = t] :
             x \in {y \in inputs : y # <<>> /\ y[Len(y)].tldr = <<>>},
             t \in TldrChoices}

RECURSIVE InputsOfSize(_)
InputsOfSize(n) ==
    IF n = 0 THEN {<<>>}
    ELSE LET smaller == InputsOfSize(n - 1)
         IN  smaller \cup Grow(smaller)

MergeInit ==
    /\ rs \in InputsOfSize(MaxInputSize)
    /\ deduped = EmptyResult
    /\ merged = EmptyResult
    /\ merged2 = EmptyResult
    /\ mpc = "input"

\* lines 262-287
MergeSameCategory ==
    /\ mpc = "input"
    /\ IF rs = <<>>
       THEN /\ deduped' = EmptyResult
            /\ merged' = EmptyResult
            /\ mpc' = "merged"
       ELSE /\ deduped' = SameCategoryDedup(rs)
            /\ merged' = merged
            /\ mpc' = "deduped"
    /\ UNCHANGED <<rs, merged2>>
    /\ UNCHANGED notMergeVars

\* lines 289-309
MergeFinish ==
    /\ mpc = "deduped"
    /\ merged' = FinishMerge(rs, deduped)
    /\ mpc' = "merged"
    /\ UNCHANGED <<rs, deduped, merged2>>
    /\ UNCHANGED notMergeVars

\* merge_results([merged])
MergeAgain ==
    /\ mpc = "merged"
    /\ merged2' = merge_results(<<merged>>)
    /\ mpc' = "remerged"
    /\ UNCHANGED <<rs, deduped, merged>>
    /\ UNCHANGED notMergeVars

\* merge_results on the examples of the specification
MaxExampleResults == 3

ExampleResults ==
    {[EmptyResult EXCEPT !.decisions = <<Decision(Str_UsePostgres)>>],
     [EmptyResult EXCEPT !.action_items = <<ActionItem(Str_SetUpPostgres)>>],
     [EmptyResult EXCEPT !.decisions = <<Decision(Str_UseGrpc)>>],
     [EmptyResult EXCEPT !.decisions = <<Decision(Str_UseGrpcForApis)>>]}

RECURSIVE ListsUpTo(_, _)
ListsUpTo(S, n) ==
    IF n = 0 THEN {<<>>}
    ELSE LET shorter == ListsUpTo(S, n - 1)
         IN  shorter \cup {Append(l, x) : l \in shorter, x \in S}

ExamplesInit ==
    /\ rs \in ListsUpTo(ExampleResults, MaxExampleResults)
    /\ deduped = EmptyResult
    /\ merged = EmptyResult
    /\ merged2 = EmptyResult
    /\ mpc = "input"

MergeIdle ==
    /\ rs = <<>>
    /\ deduped = EmptyResult
    /\ merged = EmptyResult
    /\ merged2 = EmptyResult
    /\ mpc = "idle"

MergeNext == MergeSameCategory \/ MergeFinish \/ MergeAgain

-----------------------------------------------------------------------------
(* Regular expressions of the cleanup (Python re, str patterns)            *)

Digits == {"0", "1", "2", "3", "4", "5", "6", "7", "8", "9"}

IsUpper(c) == \E i \in 1..26 : UpperLetters[i] = c

IsLower(c) == \E i \in 1..26 : LowerLetters[i] = c

\* \w
IsWordChar(c) == IsUpper(c) \/ IsLower(c) \/ c \in Digits \/ c = "_"

\* \s
IsSpace(c) == c \in {" ", "\t", NL, "\r", "\f"}

\* \b at position p of s: exactly one of s[p-1], s[p] is a word character
IsBoundary(s, p) ==
    (p > 0 /\ IsWordChar(s[p])) # (p < Len(s) /\ IsWordChar(s[p + 1]))

\* $ at position p of s: the end, or just before a final newline
IsEnd(s, p) == p = Len(s) \/ (p = Len(s) - 1 /\ s[Len(s)] = NL)

\* The positions a token can end at when it starts at one of `from`
TokenEnds(s, from, tok) ==
    CASE tok.t = "alt" ->
           UNION {{p + Len(o) :
                      o \in {w \in tok.opts :
                                Lower(Slice(s, p, p + Len(w))) = Lower(w)}} :
                  p \in from}
      [] tok.t = "ws+" ->
           {q \in 0..Len(s) :
               \E p \in from : p < q /\ \A k \in (p + 1)..q : IsSpace(s[k])}
      [] tok.t = "b" -> {p \in from : IsBoundary(s, p)}
      [] tok.t = "$" -> {p \in from : IsEnd(s, p)}

RECURSIVE TokensEnds(_, _, _)
TokensEnds(s, from, tokens) ==
    IF tokens = <<>> THEN from
    ELSE TokensEnds(s, TokenEnds(s, from, Head(tokens)), Tail(tokens))

\* pattern.search(s)
Search(pattern, s) ==
    TokensEnds(s, IF pattern.anchored THEN {0} ELSE 0..Len(s),
               pattern.tokens) # {}

\* s.strip()
RECURSIVE LStrip(_)
LStrip(s) == IF s # <<>> /\ IsSpace(Head(s)) THEN LStrip(Tail(s)) ELSE s

RECURSIVE RStrip(_)
RStrip(s) ==
    IF s # <<>> /\ IsSpace(s[Len(s)]) THEN RStrip(SubSeq(s, 1, Len(s) - 1))
    ELSE s

Strip(s) == RStrip(LStrip(s))

\* The alternatives of _BAD_OWNER_RE (lines 17-21)
BadOwnerWords ==
    {
        <<"t", "e", "a", "m">>, <<"l", "e", "a", "d">>,
        <<"c", "o", "m", "m", "i", "t", "t", "e", "e">>,
        <<"p", "a", "n", "e", "l">>, <<"b", "o", "a", "r", "d">>,
        <<"m", "a", "n", "a", "g", "e", "m", "e", "n", "t">>,
        <<"d", "e", "p", "a", "r", "t", "m", "e", "n", "t">>,
        <<"d", "i", "v", "i", "s", "i", "o", "n">>,
        <<"m", "a", "n", "a", "g", "e", "r">>,
        <<"d", "e", "v", "e", "l", "o", "p", "e", "r">>,
        <<"e", "n", "g", "i", "n", "e", "e", "r">>,
        <<"a", "r", "c", "h", "i", "t", "e", "c", "t">>,
        <<"a", "n", "a", "l", "y", "s", "t">>,
        <<"r", "e", "v", "i", "e", "w", "e", "r">>,
        <<"g", "r", "o", "u", "p">>}

\* _FILLER_PATTERNS (lines 25-38).  A pattern is a sequence of tokens: "alt"
\* (one of the strings opts, letters matched in any case), "ws+" (\s+),
\* "b" (\b) and "$"; anchored is TRUE for a pattern that starts with ^.
\* The optional group of line 33 is written as two patterns.
FillerPatterns ==
    <<
     [anchored |-> TRUE,
      tokens |-> <<
        [t |-> "alt", opts |-> {<<"n", "o", " ">>}],
        [t |-> "alt", opts |-> {
                <<"p", "a", "r", "t", "i", "c", "u", "l", "a", "r">>,
                <<"s", "p", "e", "c", "i", "f", "i", "c">>,
                <<"e", "x", "p", "l", "i", "c", "i", "t">>,
                <<"c", "l", "e", "a", "r">>, <<"s", "t", "a", "t", "e", "d">>,
                <<"g", "i", "v", "e", "n">>,
                <<"d", "o", "c", "u", "m", "e", "n", "t", "e", "d">>}],
        [t |-> "b", opts |-> {}]>>],
     [anchored |-> TRUE,
      tokens |-> <<
        [t |-> "alt", opts |-> {<<"n", "o", "t", " ">>}],
        [t |-> "alt", opts |-> {
                <<"s", "p", "e", "c", "i", "f", "i", "e", "d">>,
                <<"m", "e", "n", "t", "i", "o", "n", "e", "d">>,
                <<"s", "t", "a", "t", "e", "d">>,
                <<"d", "i", "s", "c", "u", "s", "s", "e", "d">>,
                <<"p", "r", "o", "v", "i", "d", "e", "d">>,
                <<"g", "i", "v", "e", "n">>,
                <<"d", "o", "c", "u", "m", "e", "n", "t", "e", "d">>}],
        [t |-> "b", opts |-> {}]>>],
     [anchored |-> TRUE,
      tokens |-> <<
        [t |-> "alt", opts |-> {<<"n", "o", "n", "e", " ">>}],
        [t |-> "alt", opts |-> {
                <<"p", "r", "o", "v", "i", "d", "e", "d">>,
                <<"g", "i", "v", "e", "n">>, <<"s", "t", "a", "t", "e", "d">>,
                <<"m", "e", "n", "t", "i", "o", "n", "e", "d">>,
                <<"s", "p", "e", "c", "i", "f", "i", "e", "d">>}],
        [t |-> "b", opts |-> {}]>>],
     [anchored |-> TRUE,
      tokens |-> <<
        [t |-> "alt", opts |-> {<<"s", "t", "r", "a", "i", "g", "h", "t", "f", "o", "r", "w", "a", "r", "d">>}],
        [t |-> "b", opts |-> {}]>>],
     [anchored |-> TRUE,
      tokens |-> <<
        [t |-> "alt", opts |-> {
                <<"n", "a">>, <<"n", "/", "a">>}],
        [t |-> "$", opts |-> {}]>>],
     [anchored |-> TRUE,
      tokens |-> <<
        [t |-> "alt", opts |-> {
                <<"n", "o">>, <<"n", "o", "n", "e">>, <<"n", "a">>,
                <<"n", "/", "a">>, <<"t", "b", "d">>,
                <<"u", "n", "k", "n", "o", "w", "n">>,
                <<"u", "n", "s", "p", "e", "c", "i", "f", "i", "e", "d">>}],
        [t |-> "$", opts |-> {}]>>],
     [anchored |-> TRUE,
      tokens |-> <<
        [t |-> "alt", opts |-> {<<"i", "m", "p", "l", "i", "c", "i", "t">>}],
        [t |-> "b", opts |-> {}]>>],
     [anchored |-> TRUE,
      tokens |-> <<
        [t |-> "alt", opts |-> {
                <<"j", "u", "s", "t">>, <<"s", "i", "m", "p", "l", "y">>}],
        [t |-> "ws+", opts |-> {}],
        [t |-> "alt", opts |-> {
                <<"d", "e", "c", "i", "s", "i", "o", "n">>,
                <<"c", "h", "o", "i", "c", "e">>,
                <<"s", "t", "a", "n", "d", "a", "r", "d">>}],
        [t |-> "b", opts |-> {}]>>],
     [anchored |-> TRUE,
      tokens |-> <<
        [t |-> "alt", opts |-> {
                <<"j", "u", "s", "t">>, <<"s", "i", "m", "p", "l", "y">>}],
        [t |-> "ws+", opts |-> {}],
        [t |-> "alt", opts |-> {<<"a">>}],
        [t |-> "ws+", opts |-> {}],
        [t |-> "alt", opts |-> {
                <<"d", "e", "c", "i", "s", "i", "o", "n">>,
                <<"c", "h", "o", "i", "c", "e">>,
                <<"s", "t", "a", "n", "d", "a", "r", "d">>}],
        [t |-> "b", opts |-> {}]>>],
     [anchored |-> FALSE,
      tokens |-> <<
        [t |-> "alt", opts |-> {<<"n", "o", " ", "d", "e", "b", "a", "t", "e">>}]>>],
     [anchored |-> FALSE,
      tokens |-> <<
        [t |-> "alt", opts |-> {<<"n", "o", " ">>}],
        [t |-> "alt", opts |-> {
                <<"p", "a", "r", "t", "i", "c", "u", "l", "a", "r", " ">>,
                <<"s", "p", "e", "c", "i", "f", "i", "c", " ">>, <<>>}],
        [t |-> "alt", opts |-> {<<"r", "e", "a", "s", "o", "n">>}],
        [t |-> "alt", opts |-> {
                <<"i", "n", "g">>, <<>>}],
        [t |-> "b", opts |-> {}]>>],
     [anchored |-> TRUE,
      tokens |-> <<
        [t |-> "alt", opts |-> {
                <<"i", "t", "'", "s", " ">>, <<"i", "t", "s", " ">>}],
        [t |-> "alt", opts |-> {
                <<"j", "u", "s", "t", " ">>, <<>>}],
        [t |-> "alt", opts |-> {
                <<"w", "h", "a", "t">>, <<"h", "o", "w">>}],
        [t |-> "alt", opts |-> {<<" ", "w", "e">>}]>>],
     [anchored |-> TRUE,
      tokens |-> <<
        [t |-> "alt", opts |-> {
                <<"s", "t", "a", "n", "d", "a", "r", "d">>,
                <<"d", "e", "f", "a", "u", "l", "t">>,
                <<"c", "o", "m", "m", "o", "n">>,
                <<"o", "b", "v", "i", "o", "u", "s">>}],
        [t |-> "alt", opts |-> {<<" ">>}],
        [t |-> "alt", opts |-> {
                <<"c", "h", "o", "i", "c", "e">>,
                <<"d", "e", "c", "i", "s", "i", "o", "n">>,
                <<"a", "p", "p", "r", "o", "a", "c", "h">>}],
        [t |-> "b", opts |-> {}]>>]
    >>

\* \w{4,}
MinWordLen == 4

GroundedNum == 3

GroundedDen == 5

Str_user == <<"u", "s", "e", "r">>

Str_assistant == <<"a", "s", "s", "i", "s", "t", "a", "n", "t">>

\* [A-Z][a-z]+(\s[A-Z][a-z]+)*$ from position p of s
RECURSIVE TitleWordsFrom(_, _)
TitleWordsFrom(s, p) ==
    /\ p < Len(s)
    /\ IsUpper(s[p + 1])
    /\ LET q == CHOOSE e \in (p + 1)..Len(s) :
                    /\ \A k \in (p + 2)..e : IsLower(s[k])
                    /\ (e = Len(s) \/ ~IsLower(s[e + 1]))
       IN  /\ q > p + 1
           /\ \/ IsEnd(s, q)
              \/ /\ q < Len(s)
                 /\ IsSpace(s[q + 1])
                 /\ TitleWordsFrom(s, q + 1)

\* _VALID_OWNER_RE.match(value) (line 23)
ValidOwnerMatch(value) ==
    \/ IsEnd(value, 0)
    \/ \E w \in {Str_user, Str_assistant} :
           Slice(value, 0, Len(w)) = w /\ IsEnd(value, Len(w))
    \/ TitleWordsFrom(value, 0)

\* _BAD_OWNER_RE.search(value) (lines 17-21)
BadOwnerSearch(value) ==
    Search([anchored |-> FALSE,
            tokens |-> <<[t |-> "b", opts |-> {}],
                         [t |-> "alt", opts |-> BadOwnerWords],
                         [t |-> "b", opts |-> {}]>>], value)

_clean_owner(value) ==
    IF value = <<>> THEN <<>>
    ELSE IF ValidOwnerMatch(value) THEN value
    ELSE IF BadOwnerSearch(value) THEN <<>>
    ELSE IF value = Lower(value) THEN <<>>
    ELSE value

_clean_filler(value) ==
    IF value = <<>> THEN <<>>
    ELSE IF \E i \in 1..Len(FillerPatterns) :
                Search(FillerPatterns[i], Strip(value))
         THEN <<>>
         ELSE value

\* set(w.lower() for w in re.findall(r'\b\w{4,}\b', value)): the runs of
\* word characters of length 4 or more
LongWords(value) ==
    {Lower(Slice(value, i, j)) :
        <<i, j>> \in {p \in (0..Len(value)) \X (0..Len(value)) :
                        /\ p[2] - p[1] >= MinWordLen
                        /\ \A k \in (p[1] + 1)..p[2] : IsWordChar(value[k])
                        /\ (p[1] = 0 \/ ~IsWordChar(value[p[1]]))
                        /\ (p[2] = Len(value) \/ ~IsWordChar(value[p[2] + 1]))}}

_clean_ungrounded_AtMost(value, grounding) ==
    LET value_words == LongWords(value)
        grounded == Cardinality({w \in value_words :
                                    Contains(Lower(grounding), w)})
    IN  IF value_words = {} THEN value
        ELSE IF GroundedDen * grounded <= GroundedNum * Cardinality(value_words)
             THEN <<>>
             ELSE value

\* grounded / len(value_words) < 0.6 (line 93), 0.6 as
\* GroundedNum / GroundedDen
_clean_ungrounded(value, grounding) ==
    IF value = <<>> THEN <<>>
    ELSE LET value_words == LongWords(value)
             transcript_lower == Lower(grounding)
             grounded == Cardinality({w \in value_words :
                                         Contains(transcript_lower, w)})
         IN  IF value_words = {} THEN value
             ELSE IF GroundedDen * grounded
                        < GroundedNum * Cardinality(value_words)
                  THEN <<>>
                  ELSE value

_clean_date_Unchecked(value, grounding) == value

\* A date check that puts a placeholder for an ungrounded date
_clean_date_Placeholder(value, grounding) ==
    IF Contains(grounding, value) THEN value ELSE <<"?">>

_clean_date(value, grounding) ==
    IF value = <<>> THEN <<>>
    ELSE IF Contains(grounding, value) THEN value ELSE <<>>

CleanDecision(d, grounding) ==
    LET d1 == [d EXCEPT !.owner = _clean_owner(d.owner),
                        !.rationale = _clean_filler(d.rationale)]
    IN  IF grounding # <<>>
        THEN [d1 EXCEPT !.rationale = _clean_ungrounded(d1.rationale, grounding),
                        !.date = _clean_date(d1.date, grounding)]
        ELSE d1

CleanQuestion(q, grounding) ==
    LET q1 == [q EXCEPT !.owner = _clean_owner(q.owner),
                        !.context = _clean_filler(q.context)]
    IN  IF grounding # <<>>
        THEN [q1 EXCEPT !.context = _clean_ungrounded(q1.context, grounding)]
        ELSE q1

CleanActionItem(a, grounding) ==
    LET a1 == [a EXCEPT !.owner = _clean_owner(a.owner)]
    IN  IF grounding # <<>>
        THEN [a1 EXCEPT !.deadline = _clean_date(a1.deadline, grounding)]
        ELSE a1

cleanup_result(result, grounding) ==
    [result EXCEPT
        !.decisions = [i \in 1..Len(result.decisions) |->
                          CleanDecision(result.decisions[i], grounding)],
        !.questions = [i \in 1..Len(result.questions) |->
                          CleanQuestion(result.questions[i], grounding)],
        !.action_items = [i \in 1..Len(result.action_items) |->
                          CleanActionItem(result.action_items[i], grounding)]]


-----------------------------------------------------------------------------
(* chunk_transcript as process_transcript calls it (max_size >= 1)         *)

RECURSIVE ChunkLoop(_, _, _, _, _)
ChunkLoop(t, ms, ov, st, acc) ==
    IF st < Len(t)
    THEN LET end == ChunkEnd(t, ms, st)
         IN  ChunkLoop(t, ms, ov, NextStart(st, end, ov),
                       Append(acc, Slice(t, st, end)))
    ELSE acc

chunk_transcript(t, ms, ov) ==
    IF Len(t) <= ms THEN <<t>>
    ELSE LET cs == ChunkLoop(t, ms, ov, 0, <<>>)
         IN  IF cs # <<>> THEN cs ELSE <<t>>

-----------------------------------------------------------------------------
(* The backend and what one attempt of extract_structured makes of it      *)

\* What the model can answer with a valid object
ValidResults ==
    {[EmptyResult EXCEPT !.decisions = <<Decision(Str_UseGrpc)>>],
     [EmptyResult EXCEPT !.decisions = <<Decision(Str_UseGrpcForApis)>>],
     [EmptyResult EXCEPT
         !.decisions = <<[Decision(Txt_abcd) EXCEPT !.owner = Str_QaTeam,
                                                    !.date = Txt_ab]>>,
         !.tldr = Txt_ab]}

\* backend.generate either raises (network, auth) or returns text: text that
\* is not JSON, JSON that is not an object (an array, a string, a number,
\* null), an object the schema rejects, or an object it accepts
Responses ==
    {[kind |-> k, data |-> EmptyResult] :
        k \in {"backend_error", "not_json", "json_not_object",
               "invalid_object"}}
    \cup {[kind |-> "valid", data |-> r] : r \in ValidResults}

\* The exception lines 392-397 raise on a response, "ok" when none:
\* generate raises the backend's error; extract_json_block raises
\* JSONDecodeError on text that is not JSON; ExtractionResult(**data) raises
\* TypeError when data is not a mapping and pydantic's ValidationError (a
\* ValueError) when the object does not fit the schema
AttemptOutcome(resp) ==
    CASE resp.kind = "backend_error" -> "BackendError"
      [] resp.kind = "not_json" -> "JSONDecodeError"
      [] resp.kind = "json_not_object" -> "TypeError"
      [] resp.kind = "invalid_object" -> "ValidationError"
      [] resp.kind = "valid" -> "ok"

Caught_AnyException(e) == e # "ok"

AttemptsRemain_OneMore(k, retries) == k <= retries

\* except (json.JSONDecodeError, ValueError) (line 406)
Caught(e) == e \in {"JSONDecodeError", "ValidationError"}

\* for attempt in range(config.max_retries) (line 386)
AttemptsRemain(k, retries) == k < retries

\* attempt == config.max_retries - 1 (line 412)
IsLastAttempt(k, retries) == k = retries - 1

-----------------------------------------------------------------------------
(* process_transcript and extract_structured *)

Txt_aab == <<"a", "a", "b">>

\* The transcripts: empty, of two characters and of three
ProcTranscripts == {<<>>, Txt_ab, Txt_aab}

MaxChunkSize == 2

MaxChunkOverlap == 1

MaxRetries == 2

\* max_chunk_size starts at 1: with 0 chunk_transcript does not return
\* (SpecChunk has that case)
ProcInit ==
    /\ transcript \in ProcTranscripts
    /\ max_chunk_size \in 1..MaxChunkSize
    /\ chunk_overlap \in 0..MaxChunkOverlap
    /\ max_retries \in (0 - 1)..MaxRetries
    /\ ppc = "call"
    /\ path = "none"
    /\ pchunks = <<>>
    /\ ci = 0
    /\ attempt = 0
    /\ outcomes = <<>>
    /\ results = <<>>
    /\ presult = EmptyResult
    /\ returned = <<>>
    /\ exc = "none"
    /\ exlog = <<>>
    /\ mergeLog = <<>>
    /\ cleanupLog = <<>>

\* extract_structured(backend, config, chunk) is entered
EnterExtract(chunk) ==
    /\ exlog' = Append(exlog, [chunk |-> chunk, returned |-> <<>>,
                               exhausted |-> FALSE])
    /\ attempt' = 0
    /\ outcomes' = <<>>
    /\ ppc' = "attempt"

\* extract_structured returns r to process_transcript: line 432 on the
\* single-chunk path, lines 444-445 in the loop over the chunks
ReturnFromExtract(r, isExhausted) ==
    /\ exlog' = [exlog EXCEPT ![Len(exlog)].returned = <<r>>,
                              ![Len(exlog)].exhausted = isExhausted]
    /\ IF path = "single"
       THEN /\ presult' = r
            /\ ppc' = "cleanup"
            /\ UNCHANGED <<results, ci>>
       ELSE /\ results' = Append(results, r)
            /\ ci' = ci + 1
            /\ ppc' = "loop"
            /\ UNCHANGED presult

\* lines 428-437
ProcEnter ==
    /\ ppc = "call"
    /\ IF transcript = <<>>
       THEN /\ returned' = <<EmptyResult>>
            /\ ppc' = "done"
            /\ UNCHANGED <<path, pchunks, ci, attempt, outcomes, exlog>>
       ELSE IF Len(transcript) <= max_chunk_size
       THEN /\ path' = "single"
            /\ pchunks' = <<transcript>>
            /\ ci' = 1
            /\ EnterExtract(transcript)
            /\ UNCHANGED returned
       ELSE /\ path' = "chunked"
            /\ pchunks' = chunk_transcript(transcript, max_chunk_size,
                                           chunk_overlap)
            /\ ci' = 1
            /\ ppc' = "loop"
            /\ UNCHANGED <<returned, attempt, outcomes, exlog>>
    /\ UNCHANGED <<transcript, max_chunk_size, chunk_overlap, max_retries,
                   results, presult, exc, mergeLog, cleanupLog>>
    /\ UNCHANGED notProcVars

\* lines 440-444: the next chunk, or the end of the loop
ProcNextChunk ==
    /\ ppc = "loop"
    /\ IF ci <= Len(pchunks)
       THEN EnterExtract(pchunks[ci])
       ELSE /\ ppc' = "merge"
            /\ UNCHANGED <<attempt, outcomes, exlog>>
    /\ UNCHANGED <<transcript, max_chunk_size, chunk_overlap, max_retries,
                   path, pchunks, ci, results, presult, returned, exc,
                   mergeLog, cleanupLog>>
    /\ UNCHANGED notProcVars

\* lines 386-417: one attempt
ExtractAttempt ==
    /\ ppc = "attempt"
    /\ AttemptsRemain(attempt, max_retries)
    /\ \E resp \in Responses :
         LET e == AttemptOutcome(resp)
         IN  /\ outcomes' = Append(outcomes, [raised |-> e,
                                                data |-> resp.data])
             /\ IF e = "ok"
                THEN /\ ReturnFromExtract(resp.data, FALSE)
                     /\ UNCHANGED <<attempt, exc>>
                ELSE IF Caught(e)
                THEN IF IsLastAttempt(attempt, max_retries)
                     THEN /\ ReturnFromExtract(EmptyResult, TRUE)
                          /\ UNCHANGED <<attempt, exc>>
                     ELSE /\ attempt' = attempt + 1
                          /\ UNCHANGED <<exlog, results, ci, presult, ppc,
                                         exc>>
                ELSE /\ exc' = e
                     /\ ppc' = "raised"
                     /\ UNCHANGED <<exlog, results, ci, presult, attempt>>
    /\ UNCHANGED <<transcript, max_chunk_size, chunk_overlap, max_retries,
                   path, pchunks, returned, mergeLog, cleanupLog>>
    /\ UNCHANGED notProcVars

\* line 419: the loop over the attempts ends without a return
ExtractNoAttemptLeft ==
    /\ ppc = "attempt"
    /\ ~AttemptsRemain(attempt, max_retries)
    /\ ReturnFromExtract(EmptyResult, TRUE)
    /\ UNCHANGED <<transcript, max_chunk_size, chunk_overlap, max_retries,
                   path, pchunks, attempt, outcomes, returned, exc,
                   mergeLog, cleanupLog>>
    /\ UNCHANGED notProcVars

\* line 447
ProcMerge ==
    /\ ppc = "merge"
    /\ presult' = merge_results(results)
    /\ mergeLog' = Append(mergeLog, results)
    /\ ppc' = "cleanup"
    /\ UNCHANGED <<transcript, max_chunk_size, chunk_overlap, max_retries,
                   path, pchunks, ci, attempt, outcomes, results, returned,
                   exc, exlog, cleanupLog>>
    /\ UNCHANGED notProcVars

CleanupTranscript_LastChunk == pchunks[Len(pchunks)]

\* The grounding text of the cleanup (lines 433 and 448)
CleanupTranscript == transcript

\* lines 433 and 448-453
ProcCleanup ==
    /\ ppc = "cleanup"
    /\ returned' = <<cleanup_result(presult, CleanupTranscript)>>
    /\ cleanupLog' = Append(cleanupLog, [result |-> presult,
                                         transcript |-> CleanupTranscript])
    /\ ppc' = "done"
    /\ UNCHANGED <<transcript, max_chunk_size, chunk_overlap, max_retries,
                   path, pchunks, ci, attempt, outcomes, results, presult,
                   exc, exlog, mergeLog>>
    /\ UNCHANGED notProcVars

ProcIdle ==
    /\ transcript = <<>>
    /\ max_chunk_size = 0
    /\ chunk_overlap = 0
    /\ max_retries = 0
    /\ ppc = "idle"
    /\ path = "none"
    /\ pchunks = <<>>
    /\ ci = 0
    /\ attempt = 0
    /\ outcomes = <<>>
    /\ results = <<>>
    /\ presult = EmptyResult
    /\ returned = <<>>
    /\ exc = "none"
    /\ exlog = <<>>
    /\ mergeLog = <<>>
    /\ cleanupLog = <<>>

ProcNext ==
    \/ ProcEnter
    \/ ProcNextChunk
    \/ ExtractAttempt
    \/ ExtractNoAttemptLeft
    \/ ProcMerge
    \/ ProcCleanup

-----------------------------------------------------------------------------
(* extract_json_block.  A text is a sequence of pieces, each a substring    *)
(* that no search pattern of the function can straddle: the run of three    *)
(* backticks, the word json, the double quote, the digit 1 and the newline  *)

\* The run of three backticks
Fence == "FENCE"

Tag == "json"

Quote == "\""

One == "1"

JsonAlphabet == {Fence, Tag, Quote, One, NL}

\* s.find(sub, lo): the lowest index i >= lo with s[i:i+len(sub)] == sub,
\* or -1
Find(s, sub, lo) ==
    LET hits == {i \in lo..(Len(s) - Len(sub)) : Slice(s, i, i + Len(sub)) = sub}
    IN  IF hits = {} THEN -1 ELSE CHOOSE i \in hits : \A j \in hits : i <= j

\* The objects: the integers written with ones, and the strings
NoObject == [type |-> "none", ones |-> 0, chars |-> <<>>]

JsonInt(n) == [type |-> "int", ones |-> n, chars |-> <<>>]

JsonStr(cs) == [type |-> "str", ones |-> 0, chars |-> cs]

RECURSIVE Ones(_)
Ones(n) == IF n = 0 THEN <<>> ELSE <<One>> \o Ones(n - 1)

\* json.dumps(obj): the digits of an integer, a string between quotes (the
\* strings here hold no character that dumps escapes)
json_dumps(obj) ==
    IF obj.type = "int" THEN Ones(obj.ones)
    ELSE <<Quote>> \o obj.chars \o <<Quote>>

\* json.loads(s): whitespace around one value; a number is a run of digits,
\* a string runs from a quote to the next quote and holds no raw newline;
\* NoObject stands for JSONDecodeError
json_loads(s) ==
    LET body == Strip(s)
    IN  IF body # <<>> /\ \A i \in 1..Len(body) : body[i] = One
        THEN JsonInt(Len(body))
        ELSE IF /\ Len(body) >= 2
                /\ body[1] = Quote
                /\ body[Len(body)] = Quote
                /\ \A i \in 2..(Len(body) - 1) : body[i] \notin {Quote, NL}
        THEN JsonStr(SubSeq(body, 2, Len(body) - 1))
        ELSE NoObject

Returned(s) == [kind |-> "returned", value |-> s]

JSONDecodeError == [kind |-> "raised", value |-> <<>>]

NotCalled == [kind |-> "none", value |-> <<>>]

\* json.loads(json_str); return json_str (lines 185-186, 194-195, 198-200)
ValidateAndReturn(json_str) ==
    IF json_loads(json_str) = NoObject THEN JSONDecodeError
    ELSE Returned(json_str)

\* lines 196-200
TryRaw(t) == ValidateAndReturn(t)

\* lines 188-195, then the raw text
TryFence(t) ==
    IF Contains(t, <<Fence>>)
    THEN LET st == Find(t, <<Fence>>, 0) + 1
             end == Find(t, <<Fence>>, st)
         IN  IF end # -1 THEN ValidateAndReturn(Strip(Slice(t, st, end)))
             ELSE TryRaw(t)
    ELSE TryRaw(t)

TryFence_Fallback(t) ==
    LET st == Find(t, <<Fence>>, 0) + 1
        end == IF st = 0 THEN -1 ELSE Find(t, <<Fence>>, st)
        block == IF end # -1 THEN Strip(Slice(t, st, end)) ELSE <<>>
    IN  IF end # -1 /\ json_loads(block) # NoObject THEN Returned(block)
        ELSE TryRaw(t)

TryTaggedFence_Fallback(t) ==
    LET st == Find(t, <<Fence, Tag>>, 0) + 2
        end == IF st = 1 THEN -1 ELSE Find(t, <<Fence>>, st)
        block == IF end # -1 THEN Strip(Slice(t, st, end)) ELSE <<>>
    IN  IF end # -1 /\ json_loads(block) # NoObject THEN Returned(block)
        ELSE TryFence_Fallback(t)

\* lines 179-186, then the other two steps
TryTaggedFence(t) ==
    IF Contains(t, <<Fence, Tag>>)
    THEN LET st == Find(t, <<Fence, Tag>>, 0) + 2
             end == Find(t, <<Fence>>, st)
         IN  IF end # -1 THEN ValidateAndReturn(Strip(Slice(t, st, end)))
             ELSE TryFence(t)
    ELSE TryFence(t)

extract_json_block(t) == TryTaggedFence(Strip(t))

\* A block fenced and tagged json around s, each on its own line
FencedJson(s) == <<Fence, Tag, NL>> \o s \o <<NL, Fence>>

MaxJsonTextLen == 5

MaxStrLen == 2

MaxOnes == 2

JsonObjects ==
    {JsonInt(n) : n \in 1..MaxOnes}
    \cup {JsonStr(cs) : cs \in StringsUpTo({Fence, Tag, One}, MaxStrLen)}

\* Either a text, or an object to be serialised and fenced
JsonInit ==
    /\ \/ /\ jobj = NoObject
          /\ jtext \in StringsUpTo(JsonAlphabet, MaxJsonTextLen)
          /\ jpc = "text"
       \/ /\ jobj \in JsonObjects
          /\ jtext = <<>>
          /\ jpc = "object"
    /\ jout = NotCalled
    /\ jdecoded = NoObject

\* The text is json.dumps(obj) in a fence tagged json
JsonWrap ==
    /\ jpc = "object"
    /\ jtext' = FencedJson(json_dumps(jobj))
    /\ jpc' = "text"
    /\ UNCHANGED <<jobj, jout, jdecoded>>
    /\ UNCHANGED notJsonVars

\* extract_json_block(jtext)
JsonExtract ==
    /\ jpc = "text"
    /\ jout' = extract_json_block(jtext)
    /\ jpc' = "extracted"
    /\ UNCHANGED <<jobj, jtext, jdecoded>>
    /\ UNCHANGED notJsonVars

\* json.loads of what extract_json_block returned (line 395)
JsonDecode ==
    /\ jpc = "extracted"
    /\ jout.kind = "returned"
    /\ jdecoded' = json_loads(jout.value)
    /\ jpc' = "decoded"
    /\ UNCHANGED <<jobj, jtext, jout>>
    /\ UNCHANGED notJsonVars

JsonIdle ==
    /\ jobj = NoObject
    /\ jtext = <<>>
    /\ jout = NotCalled
    /\ jdecoded = NoObject
    /\ jpc = "idle"

JsonNext == JsonWrap \/ JsonExtract \/ JsonDecode

-----------------------------------------------------------------------------
(* cleanup_result on one result and one transcript *)

Own_Daniel ==
    <<"D", "a", "n", "i", "e", "l">>

Own_DanielSmith ==
    <<"D", "a", "n", "i", "e", "l", " ", "S", "m", "i", "t", "h">>

Own_theEngineeringTeam ==
    <<"t", "h", "e", " ", "e", "n", "g", "i", "n", "e", "e", "r", "i", "n",
      "g", " ", "t", "e", "a", "m">>

Own_bobSmithLower ==
    <<"b", "o", "b", " ", "s", "m", "i", "t", "h">>

Own_EngineeringTeam ==
    <<"E", "n", "g", "i", "n", "e", "e", "r", "i", "n", "g", " ", "T", "e",
      "a", "m">>

Own_TEAM ==
    <<"T", "E", "A", "M">>

Own_Teammate ==
    <<"T", "e", "a", "m", "m", "a", "t", "e">>

Own_bobSmithMixed ==
    <<"b", "o", "b", " ", "S", "m", "i", "t", "h">>

Own_Manager ==
    <<"M", "a", "n", "a", "g", "e", "r">>

Rat_1 ==
    <<"a", "a", "a", "a">>

Rat_2 ==
    <<"a", "a", "a", "a", " ", "b", "b", "b", "b">>

Rat_3 ==
    <<"a", "a", "a", "a", " ", "b", "b", "b", "b", " ", "c", "c", "c", "c">>

Rat_5 ==
    <<"a", "a", "a", "a", " ", "b", "b", "b", "b", " ", "c", "c", "c", "c",
      " ", "d", "d", "d", "d", " ", "e", "e", "e", "e">>

Rat_Repeat ==
    <<"a", "a", "a", "a", " ", "a", "a", "a", "a", " ", "b", "b", "b", "b">>

Rat_Upper ==
    <<"A", "A", "A", "A", " ", "b", "b", "b", "b">>

Rat_Short ==
    <<"a", "b", "c", " ", "d", "e">>

Rat_Na ==
    <<"n", "/", "a">>

Rat_NoDebate ==
    <<"a", "a", "a", "a", " ", "n", "o", " ", "d", "e", "b", "a", "t", "e">>

Tr_1 ==
    <<"a", "a", "a", "a">>

Tr_3 ==
    <<"a", "a", "a", "a", " ", "b", "b", "b", "b", " ", "c", "c", "c", "c">>

Tr_Inside ==
    <<"x", "a", "a", "a", "a", "x", " ", "b", "b", "b", "b">>

Tr_Upper ==
    <<"A", "A", "A", "A">>

Tr_Date ==
    <<"a", "b", " ", "a", "a", "a", "a">>

CleanupOwners ==
    {<<>>, Str_user, Str_assistant, Str_QaTeam, Own_Daniel, Own_DanielSmith, Own_theEngineeringTeam, Own_bobSmithLower,
     Own_EngineeringTeam, Own_TEAM, Own_Teammate, Own_bobSmithMixed, Own_Manager}

CleanupRationales ==
    {<<>>, Rat_1, Rat_2, Rat_3, Rat_5, Rat_Repeat,
     Rat_Upper, Rat_Short, Rat_Na, Rat_NoDebate}

CleanupDates == {<<>>, Txt_ab, Rat_1}

CleanupTranscripts ==
    {<<>>, Tr_1, Tr_3, Tr_Inside, Tr_Upper, Tr_Date}

\* How many items of each of the three cleaned categories the result holds
MaxCopies == 1

\* n decisions, n questions and n action items with the given fields
CleanupInput(n, owner, note, date) ==
    [EmptyResult EXCEPT
        !.decisions = [i \in 1..n |->
                          [Decision(Txt_ab) EXCEPT !.owner = owner,
                                                   !.rationale = note,
                                                   !.date = date]],
        !.questions = [i \in 1..n |->
                          [Question(Txt_ab) EXCEPT !.owner = owner,
                                                   !.context = note]],
        !.action_items = [i \in 1..n |->
                          [ActionItem(Txt_ab) EXCEPT !.owner = owner,
                                                     !.deadline = date]]]

\* A result with two different items in every category and a tldr
MixedResult ==
    [decisions |-> <<[Decision(Txt_ab) EXCEPT !.owner = Own_Daniel,
                                              !.rationale = Rat_Na,
                                              !.date = Txt_ab],
                     [Decision(Txt_abc) EXCEPT !.owner = Str_user,
                                               !.rationale = Rat_1,
                                               !.date = Rat_1]>>,
     ideas |-> <<[Idea(Txt_abc) EXCEPT !.description = Rat_Na],
                 [Idea(Txt_ab) EXCEPT !.description = Rat_2]>>,
     questions |-> <<[Question(Txt_abc) EXCEPT !.owner = Own_Manager,
                                               !.context = Rat_2],
                     [Question(Txt_ab) EXCEPT !.owner = Own_bobSmithLower,
                                              !.context = Rat_1]>>,
     action_items |-> <<[ActionItem(Txt_AB) EXCEPT !.owner = Str_user,
                                                   !.deadline = Rat_1],
                        [ActionItem(Txt_ab) EXCEPT !.owner = Own_Daniel,
                                                   !.deadline = Txt_ab]>>,
     concepts |-> <<[Concept(Txt_abc) EXCEPT !.definition = Rat_Na],
                    Concept(Txt_ab)>>,
     terms |-> <<[Term(Txt_AB) EXCEPT !.definition = Rat_2,
                                      !.context = Rat_Na],
                 Term(Txt_ab)>>,
     tldr |-> Rat_NoDebate]

CleanupInit ==
    /\ cresult \in {CleanupInput(n, o, x, dt) :
                       n \in 0..MaxCopies, o \in CleanupOwners,
                       x \in CleanupRationales, dt \in CleanupDates}
                  \cup {MixedResult}
    /\ ctranscript \in CleanupTranscripts
    /\ cleaned = EmptyResult
    /\ clpc = "call"

\* cleanup_result(result, transcript)
Cleanup ==
    /\ clpc = "call"
    /\ cleaned' = cleanup_result(cresult, ctranscript)
    /\ clpc' = "done"
    /\ UNCHANGED <<cresult, ctranscript>>
    /\ UNCHANGED notCleanVars

CleanupIdle ==
    /\ cresult = EmptyResult
    /\ ctranscript = <<>>
    /\ cleaned = EmptyResult
    /\ clpc = "idle"

CleanupNext == Cleanup

-----------------------------------------------------------------------------
(* DedupStore (dedup.py).  A dict is the sequence of its items in insertion *)
(* order.  The text json.dump writes is the sequence of its members, each  *)
(* a key with its three fields, and the closing brace after the last one;  *)
(* a file that is being written holds a prefix of that text.  The stores   *)
(* live in one single-threaded process, so that one call runs at a time;   *)
(* the files are visible to other processes at every step.                 *)
(* record is called with the default input_file ("").                      *)

NoFile == <<"no file">>

StoreInstances == {"A", "B", "C"}

Hashes == {"h1", "h2"}

OutputFiles == {"o1.md", "o2.md"}

SchemaVersions == {"1.0", "1.1"}

MaxRecords == 2

\* The closing brace of the JSON object
ObjectEnd == <<"}">>

\* d.get(k): <<value>> or <<>> (None)
DictGet(d, k) ==
    LET at == {i \in 1..Len(d) : d[i].key = k}
    IN  IF at = {} THEN <<>> ELSE <<d[CHOOSE i \in at : TRUE].value>>

\* An assignment that forgets the other keys
DictSet_Only(d, k, val) == <<[key |-> k, value |-> val]>>

\* d[k] = val
DictSet(d, k, val) ==
    IF \E i \in 1..Len(d) : d[i].key = k
    THEN [i \in 1..Len(d) |->
             IF d[i].key = k THEN [key |-> k, value |-> val] ELSE d[i]]
    ELSE Append(d, [key |-> k, value |-> val])

\* A dump that loses the last member
json_dump_store_Truncated(d) ==
    [i \in 1..(Len(d) - 1) |->
        <<d[i].key,
          <<"output_file", d[i].value.output_file>>,
          <<"schema_version", d[i].value.schema_version>>,
          <<"input_file", d[i].value.input_file>>>>] \o <<ObjectEnd>>

\* json.dump(self._store, f, indent=2) (line 100)
json_dump_store(d) ==
    [i \in 1..Len(d) |->
        <<d[i].key,
          <<"output_file", d[i].value.output_file>>,
          <<"schema_version", d[i].value.schema_version>>,
          <<"input_file", d[i].value.input_file>>>>] \o <<ObjectEnd>>

\* The text is a whole JSON object
IsCompleteJson(f) == f # <<>> /\ f[Len(f)] = ObjectEnd

\* The dict of a sequence of members, a repeated key keeping its last value
RECURSIVE LoadMembers(_)
LoadMembers(f) ==
    IF f = <<>> THEN <<>>
    ELSE LET member == f[Len(f)]
         IN  DictSet(LoadMembers(SubSeq(f, 1, Len(f) - 1)), member[1],
                     [output_file |-> member[2][2],
                      schema_version |-> member[3][2],
                      input_file |-> member[4][2]])

\* json.load(f) (line 21) of a whole JSON object
json_load_store(f) == LoadMembers(SubSeq(f, 1, Len(f) - 1))

\* _load (lines 17-21)
_load(file) == IF file # NoFile THEN json_load_store(file) ELSE <<>>

\* A lookup that ignores the schema version
is_processed_AnyVersion(d, file_hash, schema_version) ==
    LET entry == DictGet(d, file_hash)
    IN  IF entry # <<>> THEN <<entry[1].output_file>> ELSE <<>>

\* is_processed (lines 51-54): <<output_file>>, or <<>> for None
is_processed(d, file_hash, schema_version) ==
    LET entry == DictGet(d, file_hash)
    IN  IF entry # <<>> /\ entry[1].schema_version = schema_version
        THEN <<entry[1].output_file>>
        ELSE <<>>

NoAnswer == [inst |-> "none", hash |-> "none", version |-> "none", out |-> <<>>]

\* An empty directory and one store, A, opened on it; B is opened later
StoreInit ==
    /\ unopened = {"B"}
    /\ dfile = NoFile
    /\ dtmp = NoFile
    /\ fileBefore = NoFile
    /\ writer = "none"
    /\ stores = [i \in StoreInstances |-> <<>>]
    /\ opened = {"A"}
    /\ loaded = [i \in StoreInstances |-> <<>>]
    /\ recorded = [i \in StoreInstances |-> [h \in Hashes |-> <<>>]]
    /\ synced = {}
    /\ nrecords = 0
    /\ answer = NoAnswer
    /\ spc = "run"

\* DedupStore(output_dir) (lines 12-15): another store on the directory
StoreOpen ==
    /\ spc = "run"
    /\ \E i \in unopened :
           /\ stores' = [stores EXCEPT ![i] = _load(dfile)]
           /\ loaded' = [loaded EXCEPT ![i] = _load(dfile)]
           /\ opened' = opened \cup {i}
           /\ unopened' = unopened \ {i}
           /\ synced' = IF dfile # NoFile THEN synced \cup {i} ELSE synced
    /\ answer' = NoAnswer
    /\ UNCHANGED <<dfile, dtmp, fileBefore, writer, recorded, nrecords, spc>>
    /\ UNCHANGED notStoreVars

\* record(file_hash, output_file, schema_version) (lines 66-71) up to save's
\* open(tmp, "w") (line 99), which leaves an empty .dedup.tmp
StoreRecord ==
    /\ spc = "run"
    /\ nrecords < MaxRecords
    /\ \E i \in opened, h \in Hashes, o \in OutputFiles, v \in SchemaVersions :
           /\ stores' = [stores EXCEPT ![i] =
                            DictSet(stores[i], h,
                                    [output_file |-> o, schema_version |-> v,
                                     input_file |-> ""])]
           /\ recorded' = [recorded EXCEPT ![i][h] = <<o, v>>]
           /\ writer' = i
           /\ synced' = synced \ {i}
    /\ dtmp' = <<>>
    /\ fileBefore' = dfile
    /\ nrecords' = nrecords + 1
    /\ answer' = NoAnswer
    /\ spc' = "saving"
    /\ UNCHANGED <<dfile, opened, unopened, loaded>>
    /\ UNCHANGED notStoreVars

\* In place of StoreWrite: the text is written to .dedup.json itself
StoreWrite_InPlace ==
    /\ spc = "saving"
    /\ dtmp # json_dump_store(stores[writer])
    /\ dtmp' = SubSeq(json_dump_store(stores[writer]), 1, Len(dtmp) + 1)
    /\ dfile' = dtmp'
    /\ UNCHANGED <<fileBefore, writer, stores, opened, unopened, loaded,
                   recorded, synced, nrecords, answer, spc>>
    /\ UNCHANGED notStoreVars

\* json.dump (line 100) writes the next piece of the text to .dedup.tmp
StoreWrite ==
    /\ spc = "saving"
    /\ dtmp # json_dump_store(stores[writer])
    /\ dtmp' = SubSeq(json_dump_store(stores[writer]), 1, Len(dtmp) + 1)
    /\ UNCHANGED <<dfile, fileBefore, writer, stores, opened, unopened, loaded,
                   recorded, synced, nrecords, answer, spc>>
    /\ UNCHANGED notStoreVars

\* tmp.rename(self.store_path) (line 101) after the with block has closed
\* the file; record returns
StoreRename ==
    /\ spc = "saving"
    /\ dtmp = json_dump_store(stores[writer])
    /\ dfile' = dtmp
    /\ dtmp' = NoFile
    /\ synced' = {writer}
    /\ spc' = "run"
    /\ UNCHANGED <<fileBefore, writer, stores, opened, unopened, loaded,
                   recorded, nrecords, answer>>
    /\ UNCHANGED notStoreVars

\* is_processed(file_hash, schema_version) on an open store
StoreQuery ==
    /\ spc = "run"
    /\ \E i \in opened, h \in Hashes, v \in SchemaVersions :
           answer' = [inst |-> i, hash |-> h, version |-> v,
                      out |-> is_processed(stores[i], h, v)]
    /\ UNCHANGED <<dfile, dtmp, fileBefore, writer, stores, opened, unopened,
                   loaded, recorded, synced, nrecords, spc>>
    /\ UNCHANGED notStoreVars

\* The same directory with three stores, A and two that are opened later
SharedInit ==
    /\ unopened = {"B", "C"}
    /\ dfile = NoFile
    /\ dtmp = NoFile
    /\ fileBefore = NoFile
    /\ writer = "none"
    /\ stores = [i \in StoreInstances |-> <<>>]
    /\ opened = {"A"}
    /\ loaded = [i \in StoreInstances |-> <<>>]
    /\ recorded = [i \in StoreInstances |-> [h \in Hashes |-> <<>>]]
    /\ synced = {}
    /\ nrecords = 0
    /\ answer = NoAnswer
    /\ spc = "run"

StoreIdle ==
    /\ unopened = {}
    /\ dfile = NoFile
    /\ dtmp = NoFile
    /\ fileBefore = NoFile
    /\ writer = "none"
    /\ stores = [i \in StoreInstances |-> <<>>]
    /\ opened = {}
    /\ loaded = [i \in StoreInstances |-> <<>>]
    /\ recorded = [i \in StoreInstances |-> [h \in Hashes |-> <<>>]]
    /\ synced = {}
    /\ nrecords = 0
    /\ answer = NoAnswer
    /\ spc = "idle"

StoreNext ==
    StoreOpen \/ StoreRecord \/ StoreWrite \/ StoreRename \/ StoreQuery

SharedNext == StoreOpen \/ StoreRecord \/ StoreWrite \/ StoreRename

-----------------------------------------------------------------------------
(* The output writers (output.py): write_session_markdown,                  *)
(* add_glossary_section and update_index.  A text file is the sequence of  *)
(* its lines; a file that is being written holds a prefix of them.  The    *)
(* calls are made by one single-threaded process, one at a time; the       *)
(* clock advances and other processes may read the files at every step.    *)

MaxSeconds == 1

MaxCalls == 3

\* The lines one write of the buffered file object puts into the file
BufferLines == 2

Seconds == 0..MaxSeconds

\* The results that are written
ResultA ==
    [EmptyResult EXCEPT !.decisions = <<Decision(Txt_ab)>>, !.tldr = Txt_abc]

ResultB ==
    [EmptyResult EXCEPT
        !.decisions = <<[Decision(Txt_ab) EXCEPT !.owner = Txt_AB],
                        Decision(Txt_abc)>>,
        !.action_items = <<ActionItem(Txt_abc)>>,
        !.terms = <<Term(Txt_AB)>>]

OutputResults == {ResultA, ResultB}

\* A section of write_session_markdown: nothing for an empty list, else the
\* heading, one line for each item and an empty line
Section(heading, items) ==
    IF items = <<>> THEN <<>>
    ELSE <<<<heading>>>> \o [i \in 1..Len(items) |-> <<heading, i, items[i]>>]
             \o <<<<>>>>

\* "\n".join(lines).rstrip(): without the empty lines at the end
RECURSIVE RStripLines(_)
RStripLines(lines) ==
    IF lines # <<>> /\ lines[Len(lines)] = <<>>
    THEN RStripLines(SubSeq(lines, 1, Len(lines) - 1))
    ELSE lines

\* A file name that does not depend on the clock
MarkdownPath_Fixed(now) == <<"output_dir", 0, ".md">>

\* filepath of write_session_markdown (lines 36-43): the output directory
\* and the clock's second
MarkdownPath(now) == <<"output_dir", now, ".md">>

MarkdownPaths == {MarkdownPath(t) : t \in Seconds}

\* content of write_session_markdown (lines 46-121) for the clock's second
\* now
MarkdownContent(result, now) ==
    RStripLines(
        <<<<"# Session Notes", now>>, <<>>, <<"Input">>, <<"Hash">>, <<>>>>
        \o (IF result.tldr # <<>>
            THEN <<<<"## TLDR">>, <<result.tldr>>, <<>>>> ELSE <<>>)
        \o Section("## Decisions", result.decisions)
        \o Section("## Ideas", result.ideas)
        \o Section("## Questions", result.questions)
        \o Section("## Action Items", result.action_items)
        \o Section("## Concepts", result.concepts)
        \o Section("## Terminology", result.terms))

GlossaryMatches == <<[term |-> Txt_ab]>>

GlossaryUnknown == <<[term |-> Txt_abc]>>

\* new_content of add_glossary_section (lines 287-305); every file the
\* writers produce ends with a newline
GlossaryContent(current_content, matches, unknown) ==
    current_content \o <<<<>>, <<"## Glossary Cross-Reference">>, <<>>>>
        \o [i \in 1..Len(matches) |-> <<"matches", matches[i].term>>]
        \o [i \in 1..Len(unknown) |-> <<"unknown", unknown[i].term>>]

Categories ==
    {"decisions", "ideas", "questions", "action_items", "concepts", "terms"}

\* counts of update_index (lines 236-243)
Counts(result) ==
    [decisions |-> Len(result.decisions), ideas |-> Len(result.ideas),
     questions |-> Len(result.questions),
     action_items |-> Len(result.action_items),
     concepts |-> Len(result.concepts), terms |-> Len(result.terms)]

\* The data of a new index (lines 221-234)
NewIndex ==
    [total_sessions |-> 0, stats |-> [c \in Categories |-> 0],
     sessions |-> <<>>]

\* Stats that are replaced by the counts of the last session
AddCounts_Overwrite(stats, counts) == counts

\* data["stats"][key] += counts[key] (lines 245-246)
AddCounts(stats, counts) == [c \in Categories |-> stats[c] + counts[c]]

\* data after lines 245-261
UpdatedIndex(data, result, output_file, now) ==
    LET sessions == Append(data.sessions,
                           [date |-> now, output_file |-> output_file,
                            counts |-> Counts(result)])
    IN  [total_sessions |-> Len(sessions),
         stats |-> AddCounts(data.stats, Counts(result)),
         sessions |-> sessions]

\* json.dumps(data, indent=2) (line 264): the members of the object, one
\* piece for each session, and the closing brace
json_dumps_index(data) ==
    <<<<"total_sessions", data.total_sessions>>,
      <<"stats", [c \in Categories |-> <<c, data.stats[c]>>]>>>>
    \o [i \in 1..Len(data.sessions) |->
           <<"session", data.sessions[i].date, data.sessions[i].output_file,
             [c \in Categories |-> <<c, data.sessions[i].counts[c]>>]>>]
    \o <<ObjectEnd>>

\* json.loads(index_file.read_text()) (line 219) of a whole object
json_loads_index(f) ==
    [total_sessions |-> f[1][2],
     stats |-> [c \in Categories |-> f[2][2][c][2]],
     sessions |-> [i \in 1..(Len(f) - 3) |->
                      [date |-> f[i + 2][2], output_file |-> f[i + 2][3],
                       counts |-> [c \in Categories |-> f[i + 2][4][c][2]]]]]

\* What one more write of the buffered file object leaves in the file
NextWrite(current, content) ==
    SubSeq(content, 1, Min(Len(current) + BufferLines, Len(content)))

OutputInit ==
    /\ oclock = 0
    /\ mdfiles = [f \in MarkdownPaths |-> NoFile]
    /\ indexfile = NoFile
    /\ indextmp = NoFile
    /\ opc = "run"
    /\ otarget = <<>>
    /\ ocontent = <<>>
    /\ obefore = NoFile
    /\ oarg = <<>>
    /\ mdcalls = <<>>
    /\ ixcalls = <<>>
    /\ ncalls = 0

\* The wall clock reaches the next second
Tick ==
    /\ opc # "idle"
    /\ oclock < MaxSeconds
    /\ oclock' = oclock + 1
    /\ UNCHANGED <<mdfiles, indexfile, indextmp, opc, otarget, ocontent,
                   obefore, oarg, mdcalls, ixcalls, ncalls>>
    /\ UNCHANGED notOutVars

\* write_session_markdown up to the open of filepath.write_text (line 122),
\* which creates or truncates the file
MarkdownOpen ==
    /\ opc = "run"
    /\ ncalls < MaxCalls
    /\ \E r \in OutputResults :
           /\ ocontent' = MarkdownContent(r, oclock)
           /\ oarg' = [result |-> r, second |-> oclock]
    /\ otarget' = MarkdownPath(oclock)
    /\ obefore' = mdfiles
    /\ mdfiles' = [mdfiles EXCEPT ![MarkdownPath(oclock)] = <<>>]
    /\ opc' = "markdown"
    /\ ncalls' = ncalls + 1
    /\ UNCHANGED <<oclock, indexfile, indextmp, mdcalls, ixcalls>>
    /\ UNCHANGED notOutVars

\* add_glossary_section on a markdown file up to the open of
\* filepath.write_text (line 306)
GlossaryOpen ==
    /\ opc = "run"
    /\ ncalls < MaxCalls
    /\ \E f \in MarkdownPaths :
           /\ mdfiles[f] # NoFile
           /\ otarget' = f
           /\ ocontent' = GlossaryContent(mdfiles[f], GlossaryMatches,
                                          GlossaryUnknown)
           /\ mdfiles' = [mdfiles EXCEPT ![f] = <<>>]
    /\ oarg' = <<>>
    /\ obefore' = mdfiles
    /\ opc' = "glossary"
    /\ ncalls' = ncalls + 1
    /\ UNCHANGED <<oclock, indexfile, indextmp, mdcalls, ixcalls>>
    /\ UNCHANGED notOutVars

\* A write of write_text into the markdown file
FileWrite ==
    /\ opc \in {"markdown", "glossary"}
    /\ mdfiles[otarget] # ocontent
    /\ mdfiles' = [mdfiles EXCEPT ![otarget] = NextWrite(@, ocontent)]
    /\ UNCHANGED <<oclock, indexfile, indextmp, opc, otarget, ocontent,
                   obefore, oarg, mdcalls, ixcalls, ncalls>>
    /\ UNCHANGED notOutVars

\* write_text has closed the file: write_session_markdown returns
\* str(filepath) (line 124), add_glossary_section returns
FileReturn ==
    /\ opc \in {"markdown", "glossary"}
    /\ mdfiles[otarget] = ocontent
    /\ mdcalls' = IF opc = "markdown"
                  THEN Append(mdcalls,
                              [second |-> oarg.second, path |-> otarget,
                               result |-> oarg.result, content |-> ocontent,
                               before |-> obefore, after |-> mdfiles])
                  ELSE mdcalls
    /\ opc' = "run"
    /\ UNCHANGED <<oclock, mdfiles, indexfile, indextmp, otarget, ocontent,
                   obefore, oarg, ixcalls, ncalls>>
    /\ UNCHANGED notOutVars

\* update_index up to the open of temp_file.write_text (line 264)
IndexOpen ==
    /\ opc = "run"
    /\ ncalls < MaxCalls
    /\ \E r \in OutputResults, o \in OutputFiles :
           LET data == IF indexfile # NoFile THEN json_loads_index(indexfile)
                                             ELSE NewIndex
           IN  /\ ocontent' = json_dumps_index(
                                  UpdatedIndex(data, r, o, oclock))
               /\ ixcalls' = Append(ixcalls, [result |-> r, output_file |-> o])
    /\ indextmp' = <<>>
    /\ oarg' = <<>>
    /\ otarget' = otarget
    /\ obefore' = indexfile
    /\ opc' = "index"
    /\ ncalls' = ncalls + 1
    /\ UNCHANGED <<oclock, mdfiles, indexfile, mdcalls>>
    /\ UNCHANGED notOutVars

\* A write of write_text into index.json.tmp
IndexWrite ==
    /\ opc = "index"
    /\ indextmp # ocontent
    /\ indextmp' = NextWrite(indextmp, ocontent)
    /\ UNCHANGED <<oclock, mdfiles, indexfile, opc, otarget, ocontent,
                   obefore, oarg, mdcalls, ixcalls, ncalls>>
    /\ UNCHANGED notOutVars

\* temp_file.replace(index_file) (line 265); update_index returns
IndexReplace ==
    /\ opc = "index"
    /\ indextmp = ocontent
    /\ indexfile' = indextmp
    /\ indextmp' = NoFile
    /\ opc' = "run"
    /\ UNCHANGED <<oclock, mdfiles, otarget, ocontent, obefore, oarg, mdcalls,
                   ixcalls, ncalls>>
    /\ UNCHANGED notOutVars

OutputIdle ==
    /\ oclock = 0
    /\ mdfiles = [f \in MarkdownPaths |-> NoFile]
    /\ indexfile = NoFile
    /\ indextmp = NoFile
    /\ opc = "idle"
    /\ otarget = <<>>
    /\ ocontent = <<>>
    /\ obefore = NoFile
    /\ oarg = <<>>
    /\ mdcalls = <<>>
    /\ ixcalls = <<>>
    /\ ncalls = 0

OutputNext ==
    \/ Tick
    \/ MarkdownOpen
    \/ GlossaryOpen
    \/ FileWrite
    \/ FileReturn
    \/ IndexOpen
    \/ IndexWrite
    \/ IndexReplace

-----------------------------------------------------------------------------
(* pipe_to_memory (memory_pipe.py).  A label such as "Rationale: " is one  *)
(* element of the string it begins.  The payload of a POST is modelled by  *)
(* its category and content.                                               *)

Str_Endpoint == <<"h", "t", "t", "p", ":", "/", "/", "m">>

\* The values of AUTOMEM_ENDPOINT ("" when it is not set)
Endpoints == {<<>>, <<"/">>, Str_Endpoint, Str_Endpoint \o <<"/">>}

\* The values of AUTOMEM_API_KEY ("" when it is not set)
ApiKeys == {<<>>, <<"k">>}

\* s.rstrip("/")
RECURSIVE RStripSlash(_)
RStripSlash(s) ==
    IF s # <<>> /\ s[Len(s)] = "/" THEN RStripSlash(SubSeq(s, 1, Len(s) - 1))
    ELSE s

\* ". ".join(parts)
RECURSIVE JoinParts(_)
JoinParts(parts) ==
    IF parts = <<>> THEN <<>>
    ELSE IF Len(parts) = 1 THEN parts[1]
    ELSE parts[1] \o <<". ">> \o JoinParts(Tail(parts))

\* [label + value] if value else []
PartIf(label, value) == IF value # <<>> THEN <<<<label>> \o value>> ELSE <<>>

\* _format_content (lines 105-144)
_format_content(category, item) ==
    CASE category = "decision" ->
            JoinParts(<<item.summary>> \o PartIf("Rationale: ", item.rationale)
                      \o PartIf("Owner: ", item.owner))
      [] category = "action_item" ->
            JoinParts(<<<<"ACTION: ">> \o item.description>>
                      \o PartIf("Owner: ", item.owner)
                      \o PartIf("Due: ", item.deadline))
      [] category = "concept" ->
            IF item.definition # <<>>
            THEN item.name \o <<". ">> \o item.definition
            ELSE item.name
      [] category = "term" ->
            JoinParts(<<<<"TERM: ">> \o item.term \o <<" - ">>
                          \o item.definition>>
                      \o PartIf("Context: ", item.context))
      [] category = "idea" ->
            JoinParts(<<item.title>>
                      \o (IF item.description # <<>>
                          THEN <<item.description>> ELSE <<>>)
                      \o (IF item.category # <<>>
                             /\ item.category # Idea(<<>>).category
                          THEN <<<<"Category: ">> \o item.category>>
                          ELSE <<>>))
      [] category = "question" ->
            JoinParts(<<<<"QUESTION: ">> \o item.text>>
                      \o PartIf("Context: ", item.context))
      [] OTHER -> <<>>

\* The items of a category, each with the category's name
Tagged(category, items) ==
    [i \in 1..Len(items) |-> [category |-> category, item |-> items[i]]]

\* The categories in the order of the fields of ExtractionResult
_iter_items_ModelOrder(result) ==
    Tagged("decision", result.decisions)
    \o Tagged("idea", result.ideas)
    \o Tagged("question", result.questions)
    \o Tagged("action_item", result.action_items)
    \o Tagged("concept", result.concepts)
    \o Tagged("term", result.terms)

\* The items the two loops of lines 43-47 visit, in order (_iter_items,
\* lines 89-102)
_iter_items(result) ==
    Tagged("decision", result.decisions)
    \o Tagged("action_item", result.action_items)
    \o Tagged("concept", result.concepts)
    \o Tagged("term", result.terms)
    \o Tagged("idea", result.ideas)
    \o Tagged("question", result.questions)

\* How a POST ends: a 2xx response, a response raise_for_status raises for,
\* or an exception of requests.post (no connection, timeout)
PostOutcomes == {"ok", "http_error", "exception"}

\* A result with an item in every category; the second decision and the
\* concept have no content
PipeResultFull ==
    [decisions |-> <<[Decision(Txt_ab) EXCEPT !.owner = Txt_AB],
                     Decision(<<>>)>>,
     ideas |-> <<Idea(Txt_ab)>>,
     questions |-> <<Question(Txt_abc)>>,
     action_items |-> <<ActionItem(Txt_abc)>>,
     concepts |-> <<Concept(<<>>)>>,
     terms |-> <<Term(Txt_AB)>>,
     tldr |-> <<>>]

PipeResults == {EmptyResult, ResultA, PipeResultFull}

NotReturned == [status |-> "none", stored |-> 0, errors |-> 0]

PipeInit ==
    /\ memResult \in PipeResults
    /\ memEndpoint \in Endpoints
    /\ memKey \in ApiKeys
    /\ memUrl = <<>>
    /\ memQueue = <<>>
    /\ memPosts = <<>>
    /\ memStored = 0
    /\ memErrors = 0
    /\ memReturned = NotReturned
    /\ mempc = "call"

\* lines 33-41: the configuration check
PipeEnter ==
    /\ mempc = "call"
    /\ LET endpoint == RStripSlash(memEndpoint)
       IN  IF endpoint = <<>> \/ memKey = <<>>
           THEN /\ memReturned' = [status |-> "skipped", stored |-> 0,
                                   errors |-> 0]
                /\ mempc' = "done"
                /\ UNCHANGED <<memUrl, memQueue>>
           ELSE /\ memUrl' = endpoint \o <<"/memory">>
                /\ memQueue' = _iter_items(memResult)
                /\ mempc' = "loop"
                /\ UNCHANGED memReturned
    /\ UNCHANGED <<memResult, memEndpoint, memKey, memPosts, memStored,
                   memErrors>>
    /\ UNCHANGED notMemVars

\* lines 47-84: one iteration of the inner loop
PipeItem ==
    /\ mempc = "loop"
    /\ memQueue # <<>>
    /\ LET category == memQueue[1].category
           content == _format_content(category, memQueue[1].item)
       IN  IF content = <<>>
           THEN UNCHANGED <<memPosts, memStored, memErrors>>
           ELSE \E outcome \in PostOutcomes :
                    /\ memPosts' = Append(memPosts,
                                          [url |-> memUrl,
                                           category |-> category,
                                           content |-> content,
                                           outcome |-> outcome])
                    /\ IF outcome = "ok"
                       THEN /\ memStored' = memStored + 1
                            /\ UNCHANGED memErrors
                       ELSE /\ memErrors' = memErrors + 1
                            /\ UNCHANGED memStored
    /\ memQueue' = Tail(memQueue)
    /\ UNCHANGED <<memResult, memEndpoint, memKey, memUrl, memReturned, mempc>>
    /\ UNCHANGED notMemVars

\* line 86
PipeReturn ==
    /\ mempc = "loop"
    /\ memQueue = <<>>
    /\ memReturned' = [status |-> "complete", stored |-> memStored,
                       errors |-> memErrors]
    /\ mempc' = "done"
    /\ UNCHANGED <<memResult, memEndpoint, memKey, memUrl, memQueue, memPosts,
                   memStored, memErrors>>
    /\ UNCHANGED notMemVars

PipeIdle ==
    /\ memResult = EmptyResult
    /\ memEndpoint = <<>>
    /\ memKey = <<>>
    /\ memUrl = <<>>
    /\ memQueue = <<>>
    /\ memPosts = <<>>
    /\ memStored = 0
    /\ memErrors = 0
    /\ memReturned = NotReturned
    /\ mempc = "idle"

PipeNext == PipeEnter \/ PipeItem \/ PipeReturn

-----------------------------------------------------------------------------
(* parse_file (parser.py).  A file is the sequence of its lines, each with *)
(* a newline after it.  A line is its text and the value json.loads gives  *)
(* for it.  In a message text a system-reminder block, a teammate-message  *)
(* block, a teammate protocol pattern and a compaction marker are one      *)
(* element each.                                                           *)

MaxLines == 2

Reminder == "<system-reminder>...</system-reminder>"

Teammate == "<teammate-message>...</teammate-message>"

Protocol == "\"type\":\"idle_notification\""

Compaction == "context was compressed"

\* json.loads raises JSONDecodeError
JInvalid == [t |-> "invalid"]

\* A JSON value that is no object: a number, a string, null, an array
JNumber == [t |-> "number"]

JString(s) == [t |-> "string", text |-> s]

JNull == [t |-> "null"]

JList(blocks) == [t |-> "list", blocks |-> blocks]

\* A JSON object with the keys type, subtype and message; <<>> for a key
\* that is absent
JObject(type, subtype, message) ==
    [t |-> "object", type |-> type, subtype |-> subtype, message |-> message]

\* The dict of the key message, with the keys role and content
JMessage(role, content) == [t |-> "dict", role |-> role, content |-> content]

JBlock(type, s) == [t |-> "object", type |-> type, text |-> s]

Str_hi == <<"h", "i">>

Str_ok == <<"o", "k">>

Line(raw, json) == [raw |-> raw, json |-> json]

UserLine(content) ==
    JObject(<<"user">>, <<>>,
            <<JMessage(<<"user">>, <<JString(content)>>)>>)

ExampleLines ==
    { Line(<<>>, JInvalid),
      Line(<<" ">>, JInvalid),
      Line(<<"h", "e", "l", "l", "o">>, JInvalid),
      Line(<<"4", "2">>, JNumber),
      Line(<<"[", "1", "]">>, JList(<<JNumber>>)),
      Line(<<"n", "u", "l", "l">>, JNull),
      Line(<<"{progress}">>, JObject(<<"progress">>, <<>>, <<>>)),
      Line(<<"{boundary}">>, JObject(<<"system">>, <<"compact_boundary">>, <<>>)),
      Line(<<"{no message}">>, JObject(<<"user">>, <<>>, <<>>)),
      Line(<<"{message: x}">>, JObject(<<"user">>, <<>>, <<JString(Txt_ab)>>)),
      Line(<<"{tool: hi}">>,
           JObject(<<>>, <<>>, <<JMessage(<<"tool">>, <<JString(Str_hi)>>)>>)),
      Line(<<"{user: no content}">>,
           JObject(<<"user">>, <<>>, <<JMessage(<<"user">>, <<>>)>>)),
      Line(<<"{user: hi}">>, UserLine(Str_hi)),
      Line(<<"{user: reminder}">>, UserLine(<<Reminder, " ">>)),
      Line(<<"{user: reminder hi}">>, UserLine(<<Reminder, " ">> \o Str_hi)),
      Line(<<"{user: protocol}">>, UserLine(<<"{", Protocol, "}">>)),
      Line(<<"{user: compaction}">>, UserLine(<<Compaction>> \o Str_hi)),
      Line(<<"{assistant: [ok, tool_use]}">>,
           JObject(<<"assistant">>, <<>>,
                   <<JMessage(<<"assistant">>,
                              <<JList(<<JBlock("text", Str_ok),
                                        JBlock("tool_use", <<>>)>>)>>)>>)) }

Str_jsonl == <<".", "j", "s", "o", "n", "l">>

Str_JSONL == <<".", "J", "S", "O", "N", "L">>

Str_txt == <<".", "t", "x", "t">>

Str_md == <<".", "m", "d">>

Str_markdown == <<".", "m", "a", "r", "k", "d", "o", "w", "n">>

Str_log == <<".", "l", "o", "g">>

\* path.suffix
Suffixes == {Str_jsonl, Str_JSONL, Str_txt, Str_md, Str_markdown, Str_log, <<>>}

SKIP_MESSAGE_TYPES ==
    {<<"progress">>, <<"system">>, <<"file-history-snapshot">>,
     <<"queue-operation">>}

\* _strip_inline_noise (lines 45-49)
_strip_inline_noise(s) ==
    Strip(SelectSeq(s, LAMBDA c : c \notin {Reminder, Teammate}))

\* _is_protocol_message (lines 52-61)
_is_protocol_message(s) ==
    LET stripped == Strip(s)
    IN  stripped = <<>> \/ \E i \in 1..Len(stripped) : stripped[i] = Protocol

HasCompactionMarker(s) == \E i \in 1..Len(s) : s[i] = Compaction

\* _is_compaction_summary (lines 64-90)
_is_compaction_summary(obj) ==
    IF obj.type = <<"system">> /\ obj.subtype = <<"compact_boundary">>
    THEN TRUE
    ELSE IF obj.message = <<>> THEN FALSE
    ELSE IF obj.message[1].t # "dict" THEN FALSE
    ELSE IF obj.message[1].content = <<>> THEN FALSE
    ELSE LET content == obj.message[1].content[1]
         IN  CASE content.t = "string" -> HasCompactionMarker(content.text)
               [] content.t = "list" ->
                     \E i \in 1..Len(content.blocks) :
                         /\ content.blocks[i].t = "object"
                         /\ content.blocks[i].type = "text"
                         /\ HasCompactionMarker(content.blocks[i].text)
               [] OTHER -> FALSE

\* "".join(text_parts) (lines 163-170)
RECURSIVE TextOfBlocks(_)
TextOfBlocks(blocks) ==
    IF blocks = <<>> THEN <<>>
    ELSE (IF blocks[1].t = "object" /\ blocks[1].type = "text"
          THEN blocks[1].text ELSE <<>>) \o TextOfBlocks(Tail(blocks))

\* The body of the loop of parse_jsonl for one line (lines 119-186): what
\* it does with the line, and the message it appends
ParseLine(line) ==
    IF Strip(line.raw) = <<>> THEN [does |-> "blank"]
    ELSE IF line.json.t = "invalid" THEN [does |-> "bad_line"]
    ELSE IF line.json.t # "object" THEN [does |-> "AttributeError"]
    ELSE LET obj == line.json
         IN  IF obj.type # <<>> /\ obj.type \in SKIP_MESSAGE_TYPES
             THEN [does |-> "filtered"]
             ELSE IF _is_compaction_summary(obj) THEN [does |-> "filtered"]
             ELSE IF obj.message = <<>> THEN [does |-> "filtered"]
             ELSE IF obj.message[1].t # "dict" THEN [does |-> "ignored"]
             ELSE LET message == obj.message[1]
                  IN  IF message.role \notin {<<"user">>, <<"assistant">>}
                      THEN [does |-> "ignored"]
                      ELSE IF message.content = <<>> THEN [does |-> "ignored"]
                      ELSE LET content == message.content[1]
                               raw_text ==
                                   CASE content.t = "string" -> content.text
                                     [] content.t = "list" ->
                                           TextOfBlocks(content.blocks)
                                     [] OTHER -> <<>>
                               stripped == _strip_inline_noise(raw_text)
                           IN  IF stripped = <<>> THEN [does |-> "filtered"]
                               ELSE IF _is_protocol_message(stripped)
                               THEN [does |-> "filtered"]
                               ELSE [does |-> "message",
                                     message |->
                                         (IF message.role = <<"user">>
                                          THEN <<"User:", " ">>
                                          ELSE <<"Assistant:", " ">>)
                                         \o stripped]

\* "\n\n".join(messages)
RECURSIVE JoinMessages(_)
JoinMessages(messages) ==
    IF messages = <<>> THEN <<>>
    ELSE IF Len(messages) = 1 THEN messages[1]
    ELSE messages[1] \o <<NL, NL>> \o JoinMessages(Tail(messages))

\* The loop of parse_jsonl from line i on (lines 118-186) and its return
\* (lines 188-196)
RECURSIVE JsonlLoop(_, _, _, _, _)
JsonlLoop(lines, i, messages, bad_lines, filtered) ==
    IF i > Len(lines)
    THEN [raised |-> "none", text |-> JoinMessages(messages),
          metadata |-> [messages |-> Len(messages), filtered |-> filtered,
                        skipped |-> bad_lines, format |-> "jsonl"]]
    ELSE LET step == ParseLine(lines[i])
         IN  CASE step.does = "AttributeError" ->
                     [raised |-> "AttributeError"]
               [] step.does = "bad_line" ->
                     JsonlLoop(lines, i + 1, messages, bad_lines + 1, filtered)
               [] step.does = "filtered" ->
                     JsonlLoop(lines, i + 1, messages, bad_lines, filtered + 1)
               [] step.does = "message" ->
                     JsonlLoop(lines, i + 1, Append(messages, step.message),
                               bad_lines, filtered)
               [] OTHER ->
                     JsonlLoop(lines, i + 1, messages, bad_lines, filtered)

\* f.read(): the lines, each with its newline
RECURSIVE FileText(_)
FileText(lines) ==
    IF lines = <<>> THEN <<>>
    ELSE lines[1].raw \o <<NL>> \o FileText(Tail(lines))

\* parse_jsonl (lines 93-196); a file that is not UTF-8 raises
\* UnicodeDecodeError when it is read
parse_jsonl(lines, utf8) ==
    IF ~utf8 THEN [raised |-> "UnicodeDecodeError"]
    ELSE JsonlLoop(lines, 1, <<>>, 0, 0)

\* parse_text (lines 199-218)
parse_text(lines, utf8) ==
    IF ~utf8 THEN [raised |-> "UnicodeDecodeError"]
    ELSE [raised |-> "none", text |-> FileText(lines),
          metadata |-> [format |-> "text", chars |-> Len(FileText(lines))]]

NotParsed == [raised |-> "not called"]

ParseInit ==
    /\ pfile \in UNION {[1..n -> ExampleLines] : n \in 0..MaxLines}
    /\ psuffix \in Suffixes
    /\ pexists \in BOOLEAN
    /\ putf8 \in BOOLEAN
    /\ pjsonl = NotParsed
    /\ pout = NotParsed
    /\ parsepc = "call"

\* parse_file up to the dispatch on the suffix (lines 238-249)
ParseDispatch ==
    /\ parsepc = "call"
    /\ IF ~pexists
       THEN /\ pout' = [raised |-> "FileNotFoundError"]
            /\ parsepc' = "done"
       ELSE IF Lower(psuffix) = Str_jsonl
       THEN /\ pout' = parse_jsonl(pfile, putf8)
            /\ parsepc' = "done"
       ELSE IF Lower(psuffix) \in {Str_txt, Str_md, Str_markdown}
       THEN /\ pout' = parse_text(pfile, putf8)
            /\ parsepc' = "done"
       ELSE /\ pout' = pout
            /\ parsepc' = "try"
    /\ UNCHANGED <<pfile, psuffix, pexists, putf8, pjsonl>>
    /\ UNCHANGED notParseVars

\* lines 250-258: the try block around parse_jsonl
ParseTryJsonl ==
    /\ parsepc = "try"
    /\ LET r == parse_jsonl(pfile, putf8)
       IN  /\ pjsonl' = r
           /\ IF r.raised = "UnicodeDecodeError"
              THEN /\ parsepc' = "fallback"
                   /\ pout' = pout
              ELSE IF r.raised # "none"
              THEN /\ parsepc' = "done"
                   /\ pout' = r
              ELSE IF r.metadata.messages > 0
              THEN /\ parsepc' = "done"
                   /\ pout' = r
              ELSE /\ parsepc' = "fallback"
                   /\ pout' = pout
    /\ UNCHANGED <<pfile, psuffix, pexists, putf8>>
    /\ UNCHANGED notParseVars

\* line 260: the fall back to parse_text
ParseFallback ==
    /\ parsepc = "fallback"
    /\ pout' = parse_text(pfile, putf8)
    /\ parsepc' = "done"
    /\ UNCHANGED <<pfile, psuffix, pexists, putf8, pjsonl>>
    /\ UNCHANGED notParseVars

ParseIdle ==
    /\ pfile = <<>>
    /\ psuffix = <<>>
    /\ pexists = FALSE
    /\ putf8 = TRUE
    /\ pjsonl = NotParsed
    /\ pout = NotParsed
    /\ parsepc = "idle"

ParseNext == ParseDispatch \/ ParseTryJsonl \/ ParseFallback

-----------------------------------------------------------------------------
(* Specifications *)

\* Each specification runs one of the entry points; the state of the others
\* stays as it is when they are not called
InitChunk ==
    /\ ChunkInit
    /\ MergeIdle /\ ProcIdle /\ JsonIdle /\ CleanupIdle
    /\ StoreIdle /\ OutputIdle /\ PipeIdle /\ ParseIdle

InitParagraphs ==
    /\ ParagraphInit
    /\ MergeIdle /\ ProcIdle /\ JsonIdle /\ CleanupIdle
    /\ StoreIdle /\ OutputIdle /\ PipeIdle /\ ParseIdle

InitMerge ==
    /\ MergeInit
    /\ ChunkIdle /\ ProcIdle /\ JsonIdle /\ CleanupIdle
    /\ StoreIdle /\ OutputIdle /\ PipeIdle /\ ParseIdle

InitExamples ==
    /\ ExamplesInit
    /\ ChunkIdle /\ ProcIdle /\ JsonIdle /\ CleanupIdle
    /\ StoreIdle /\ OutputIdle /\ PipeIdle /\ ParseIdle

InitProcess ==
    /\ ProcInit
    /\ ChunkIdle /\ MergeIdle /\ JsonIdle /\ CleanupIdle
    /\ StoreIdle /\ OutputIdle /\ PipeIdle /\ ParseIdle

InitJson ==
    /\ JsonInit
    /\ ChunkIdle /\ MergeIdle /\ ProcIdle /\ CleanupIdle
    /\ StoreIdle /\ OutputIdle /\ PipeIdle /\ ParseIdle

InitCleanup ==
    /\ CleanupInit
    /\ ChunkIdle /\ MergeIdle /\ ProcIdle /\ JsonIdle
    /\ StoreIdle /\ OutputIdle /\ PipeIdle /\ ParseIdle

InitStore ==
    /\ StoreInit
    /\ ChunkIdle /\ MergeIdle /\ ProcIdle /\ JsonIdle
    /\ CleanupIdle /\ OutputIdle /\ PipeIdle /\ ParseIdle

InitShared ==
    /\ SharedInit
    /\ ChunkIdle /\ MergeIdle /\ ProcIdle /\ JsonIdle
    /\ CleanupIdle /\ OutputIdle /\ PipeIdle /\ ParseIdle

InitOutput ==
    /\ OutputInit
    /\ ChunkIdle /\ MergeIdle /\ ProcIdle /\ JsonIdle
    /\ CleanupIdle /\ StoreIdle /\ PipeIdle /\ ParseIdle

InitPipe ==
    /\ PipeInit
    /\ ChunkIdle /\ MergeIdle /\ ProcIdle /\ JsonIdle
    /\ CleanupIdle /\ StoreIdle /\ OutputIdle /\ ParseIdle

InitParse ==
    /\ ParseInit
    /\ ChunkIdle /\ MergeIdle /\ ProcIdle /\ JsonIdle
    /\ CleanupIdle /\ StoreIdle /\ OutputIdle /\ PipeIdle

SpecChunk == InitChunk /\ [][ChunkNext]_vars

SpecChunkParagraphs == InitParagraphs /\ [][ChunkNext]_vars

SpecMerge == InitMerge /\ [][MergeNext]_vars

SpecMergeExamples == InitExamples /\ [][MergeNext]_vars

SpecProcess == InitProcess /\ [][ProcNext]_vars

SpecJson == InitJson /\ [][JsonNext]_vars

SpecCleanup == InitCleanup /\ [][CleanupNext]_vars

SpecStore == InitStore /\ [][StoreNext]_vars

SpecStoreShared == InitShared /\ [][SharedNext]_vars

SpecOutput == InitOutput /\ [][OutputNext]_vars

SpecPipe == InitPipe /\ [][PipeNext]_vars

SpecParse == InitParse /\ [][ParseNext]_vars

-----------------------------------------------------------------------------
(* C1: chunk_transcript always terminates: for every text longer than       *)
(* max_size, every max_size and every overlap, each iteration of the loop   *)
(* leaves start strictly greater than it was.                               *)
C1_StartStrictlyIncreasing == [][ChunkStep => start' > start]_vars

-----------------------------------------------------------------------------
(* C2: extract_structured never fails the run because of what the model     *)
(* wrote: whatever text the backend returns, the only exception that can    *)
(* leave extract_structured is one the backend call itself raised.          *)
C2_ModelOutputNeverRaises == exc \in {"none", "BackendError"}

\* The exceptions of line 406, written out
ParseFailures == {"JSONDecodeError", "ValidationError"}

(* C3: backend.generate is called at most max_retries times per chunk, and  *)
(* not at all when max_retries <= 0 (the chunk's result is then empty);     *)
(* every call but the last one made for a chunk ended in a JSON-decode or   *)
(* validation failure; and when a call's response parses and validates, it  *)
(* is the last call for the chunk and its data is what is returned.         *)
C3_BoundedRetries ==
    /\ Len(outcomes) <= Max(0, max_retries)
    /\ ppc = "attempt" => Len(outcomes) = attempt
    /\ \A i \in 1..Len(outcomes) :
         /\ i < Len(outcomes) => outcomes[i].raised \in ParseFailures
         /\ outcomes[i].raised = "ok" =>
              /\ i = Len(outcomes)
              /\ ppc # "attempt"
              /\ exlog[Len(exlog)].returned = <<outcomes[i].data>>
              /\ ~exlog[Len(exlog)].exhausted
    /\ max_retries <= 0 =>
         \A i \in 1..Len(exlog) :
             exlog[i].returned \in {<<>>, <<EmptyResult>>}

\* A validation failure, then a response that validates and is returned
C3_SecondAttemptSucceeds ==
    /\ Len(outcomes) = 2
    /\ outcomes[1].raised = "ValidationError"
    /\ outcomes[2].raised = "ok"
    /\ exlog[Len(exlog)].returned = <<outcomes[2].data>>
    /\ outcomes[2].data # EmptyResult

(* C4: a failure raised by backend.generate is not retried: it is the last  *)
(* call of the run, the error leaves process_transcript, no later chunk is  *)
(* extracted, nothing is returned, and no step follows the raise.           *)
C4_BackendFailureIsFatal ==
    /\ [](\A i \in 1..Len(outcomes) :
            outcomes[i].raised = "BackendError" =>
                /\ i = Len(outcomes)
                /\ ppc = "raised"
                /\ exc = "BackendError"
                /\ returned = <<>>
                /\ Len(exlog) = ci
                /\ exlog[ci].returned = <<>>
                /\ Len(results) = (IF path = "chunked" THEN ci - 1 ELSE 0)
                /\ mergeLog = <<>>
                /\ cleanupLog = <<>>)
    /\ [][ppc # "raised"]_vars

\* The backend fails on the second of three chunks
C4_FailsOnSecondChunk ==
    /\ exc = "BackendError"
    /\ path = "chunked"
    /\ ci = 2
    /\ Len(pchunks) = 3
    /\ Len(results) = 1
    /\ outcomes[Len(outcomes)].raised = "BackendError"

(* C5: for a transcript longer than max_chunk_size, the chunks are          *)
(* extracted once each, in index order; a chunk that exhausts its retries   *)
(* contributes an empty result and the next chunks are still extracted;     *)
(* merge_results receives one result per chunk in chunk order, and cleanup  *)
(* runs once, after the merge, on the merged result with the full           *)
(* transcript.                                                              *)
C5_SequentialPipeline ==
    (Len(transcript) > max_chunk_size /\ ppc \notin {"idle", "call"}) =>
        /\ path = "chunked"
        /\ Len(exlog) <= Len(pchunks)
        /\ \A i \in 1..Len(exlog) :
             /\ exlog[i].chunk = pchunks[i]
             /\ exlog[i].exhausted => exlog[i].returned = <<EmptyResult>>
        /\ Len(results) <= Len(exlog)
        /\ \A i \in 1..Len(results) : exlog[i].returned = <<results[i]>>
        /\ ppc \in {"merge", "cleanup", "done"} =>
             /\ Len(exlog) = Len(pchunks)
             /\ Len(results) = Len(pchunks)
        /\ mergeLog = (IF ppc \in {"cleanup", "done"} THEN <<results>>
                       ELSE <<>>)
        /\ ppc \in {"cleanup", "done"} => presult = merge_results(results)
        /\ cleanupLog = (IF ppc = "done"
                         THEN <<[result |-> presult,
                                 transcript |-> transcript]>>
                         ELSE <<>>)
        /\ ppc = "done" =>
             returned = <<cleanup_result(merge_results(results), transcript)>>

\* A finished run of three chunks whose first chunk exhausted its retries
\* and whose later chunks produced items
C5_ExhaustedThenExtracted ==
    /\ ppc = "done"
    /\ Len(pchunks) = 3
    /\ exlog[1].exhausted
    /\ exlog[2].returned # <<EmptyResult>>
    /\ exlog[3].returned # <<EmptyResult>>
    /\ returned[1].decisions # <<>>

-----------------------------------------------------------------------------
(* The similarity ratio 2*M/T against 0.80, written without the threshold   *)
(* of the model: below 0.80, and case-insensitively at least 0.80           *)

RatioBelow80(a, b) ==
    /\ Len(a) + Len(b) > 0
    /\ 10 * Matches(a, b) < 4 * (Len(a) + Len(b))

CIRatioAtLeast80(a, b) == ~RatioBelow80(Lower(a), Lower(b))

SimilarityCategories ==
    {<<"decisions", "summary">>, <<"ideas", "title">>,
     <<"questions", "text">>, <<"action_items", "description">>}

\* The items of seq at the indices in K, in the order of seq
RECURSIVE AtIndices(_, _, _)
AtIndices(seq, K, i) ==
    IF i > Len(seq) THEN <<>>
    ELSE (IF i \in K THEN <<seq[i]>> ELSE <<>>) \o AtIndices(seq, K, i + 1)

\* K is the greedy first-seen selection of all: an index is in K exactly
\* when its item is below 0.80 with the item of every earlier index in K
IsGreedySelection(K, all, attr) ==
    \A i \in 1..Len(all) :
        i \in K <=> \A j \in K : j < i => RatioBelow80(all[i][attr], all[j][attr])

NotRestated(t, ds) ==
    \A k \in 1..Len(ds) : ~CIRatioAtLeast80(t, ds[k].summary)

(* C7: in the result of merge_results no action item's description and no   *)
(* idea's title is case-insensitively at 0.80 or more with the summary of a *)
(* decision of the result; the decisions are those that survived the       *)
(* same-category dedup; the action items and the ideas are, each on their   *)
(* own, the survivors of the same-category dedup that restate no such       *)
(* decision; questions, concepts and terms lose nothing to this step.       *)
C7_NoRestatedDecision ==
    mpc \in {"merged", "remerged"} =>
        LET KeepAction(a) == NotRestated(a.description, deduped.decisions)
            KeepIdea(x) == NotRestated(x.title, deduped.decisions)
        IN  /\ merged.decisions = deduped.decisions
            /\ \A i \in 1..Len(merged.action_items) :
                   NotRestated(merged.action_items[i].description,
                               merged.decisions)
            /\ \A i \in 1..Len(merged.ideas) :
                   NotRestated(merged.ideas[i].title, merged.decisions)
            /\ merged.action_items = SelectSeq(deduped.action_items, KeepAction)
            /\ merged.ideas = SelectSeq(deduped.ideas, KeepIdea)
            /\ merged.questions = deduped.questions
            /\ \A r \in 1..Len(rs) :
                   /\ \A i \in 1..Len(rs[r].concepts) :
                          \E k \in 1..Len(merged.concepts) :
                              merged.concepts[k].name = rs[r].concepts[i].name
                   /\ \A i \in 1..Len(rs[r].terms) :
                          \E k \in 1..Len(merged.terms) :
                              merged.terms[k].term = rs[r].terms[i].term

\* The action item "AB" restates the decision "ab" and goes; "abcd" stays
C7_RestatementDropped ==
    /\ mpc = "merged"
    /\ deduped.decisions = <<Decision(Txt_ab)>>
    /\ deduped.action_items = <<ActionItem(Txt_AB), ActionItem(Txt_abcd)>>
    /\ merged.action_items = <<ActionItem(Txt_abcd)>>

\* Chunk 1 yields the Decision "Use gRPC", chunk 2 the Decision
\* "Use gRPC for APIs", and the run is over
GrpcScenario ==
    /\ ppc = "done"
    /\ Len(exlog) = 2
    /\ exlog[1].returned
           = <<[EmptyResult EXCEPT !.decisions = <<Decision(Str_UseGrpc)>>]>>
    /\ exlog[2].returned
           = <<[EmptyResult EXCEPT
                   !.decisions = <<Decision(Str_UseGrpcForApis)>>]>>

(* C8 as stated: in the two-chunk scenario the two summaries are at 0.80 or *)
(* more and the merged result has exactly one Decision, chunk 1's.          *)
C8_FirstSeenWins ==
    GrpcScenario =>
        /\ ~RatioBelow80(Str_UseGrpcForApis, Str_UseGrpc)
        /\ returned[1].decisions = <<Decision(Str_UseGrpc)>>

(* C8 as the code has it: in the two-chunk scenario the two summaries have  *)
(* ratio 2*8/25 = 0.64, below 0.80, and the merged result has both          *)
(* Decisions, chunk 1's first.                                              *)
C8_BothDecisionsKept ==
    GrpcScenario =>
        /\ Matches(Str_UseGrpcForApis, Str_UseGrpc) = 8
        /\ Len(Str_UseGrpcForApis) + Len(Str_UseGrpc) = 25
        /\ RatioBelow80(Str_UseGrpcForApis, Str_UseGrpc)
        /\ returned[1].decisions
               = <<Decision(Str_UseGrpc), Decision(Str_UseGrpcForApis)>>

C8_ScenarioDone ==
    /\ GrpcScenario
    /\ Len(pchunks) = 2
    /\ Len(returned[1].decisions) = 2

\* The merged results contain the Decision and the ActionItem of the example
PostgresExample ==
    /\ mpc \in {"merged", "remerged"}
    /\ \E i \in 1..Len(rs) : rs[i].decisions = <<Decision(Str_UsePostgres)>>
    /\ \E i \in 1..Len(rs) :
           rs[i].action_items = <<ActionItem(Str_SetUpPostgres)>>

(* C9 as stated: merging results with the Decision "Use PostgreSQL for the  *)
(* database" and the ActionItem "Set up PostgreSQL database" gives a result *)
(* without that ActionItem, the two being case-insensitively at 0.80 or     *)
(* more.                                                                    *)
C9_ActionItemDropped ==
    PostgresExample =>
        /\ CIRatioAtLeast80(Str_SetUpPostgres, Str_UsePostgres)
        /\ \A i \in 1..Len(merged.action_items) :
               merged.action_items[i] # ActionItem(Str_SetUpPostgres)

(* C9 as the code has it: the lower-cased texts have ratio 2*22/57, below   *)
(* 0.80, and the ActionItem is in the merged result, once.                  *)
C9_ActionItemKept ==
    PostgresExample =>
        /\ Matches(Lower(Str_SetUpPostgres), Lower(Str_UsePostgres)) = 22
        /\ Len(Str_SetUpPostgres) + Len(Str_UsePostgres) = 57
        /\ ~CIRatioAtLeast80(Str_SetUpPostgres, Str_UsePostgres)
        /\ merged.action_items = <<ActionItem(Str_SetUpPostgres)>>

C9_DecisionThenActionItem ==
    /\ PostgresExample
    /\ Len(rs) = 2
    /\ rs[1].decisions = <<Decision(Str_UsePostgres)>>
    /\ merged.decisions = <<Decision(Str_UsePostgres)>>
    /\ merged.action_items = <<ActionItem(Str_SetUpPostgres)>>

\* r has no near-duplicates: within a similarity category no item is at
\* 0.80 or more with an earlier one, no action item or idea restates a
\* decision, and no concept name or term occurs twice
NoNearDuplicates(r) ==
    /\ \A c \in SimilarityCategories :
           \A i, j \in 1..Len(r[c[1]]) :
               j < i => RatioBelow80(r[c[1]][i][c[2]], r[c[1]][j][c[2]])
    /\ \A i \in 1..Len(r.action_items) :
           NotRestated(r.action_items[i].description, r.decisions)
    /\ \A i \in 1..Len(r.ideas) : NotRestated(r.ideas[i].title, r.decisions)
    /\ \A i, j \in 1..Len(r.concepts) :
           i # j => r.concepts[i].name # r.concepts[j].name
    /\ \A i, j \in 1..Len(r.terms) : i # j => r.terms[i].term # r.terms[j].term

(* C10: merging is idempotent: merge_results([merge_results(rs)]) has the   *)
(* six item lists and the tldr of merge_results(rs); and merging [r] for an *)
(* r without near-duplicates returns r's content unchanged.                 *)
C10_MergeIdempotent ==
    /\ mpc = "remerged" => merged2 = merged
    /\ (mpc \in {"merged", "remerged"} /\ Len(rs) = 1
            /\ NoNearDuplicates(rs[1])) => merged = rs[1]

\* A single result with two decisions that are not near-duplicates, merged
\* twice
C10_SingleResultUnchanged ==
    /\ mpc = "remerged"
    /\ Len(rs) = 1
    /\ rs[1].decisions = <<Decision(Txt_ab), Decision(Txt_abcd)>>
    /\ NoNearDuplicates(rs[1])
    /\ merged2 = rs[1]

\* An argument with near-duplicates, merged twice
C10_DedupedThenRemerged ==
    /\ mpc = "remerged"
    /\ Len(ConcatField(rs, "decisions")) > Len(merged.decisions)
    /\ merged.decisions # <<>>
    /\ merged2 = merged

\* The indices of the first occurrences of the values of attr in all
FirstOccurrences(all, attr) ==
    {i \in 1..Len(all) : \A j \in 1..(i - 1) : all[j][attr] # all[i][attr]}

(* C11: merge_results keeps, of the chunk-order concatenation of the        *)
(* concepts, the first concept of each exactly equal name, and of the terms *)
(* the first term of each exactly equal term string, in input order: the    *)
(* kept names are pairwise different and so are the kept terms, and names   *)
(* that differ only in case or are merely similar are all kept.             *)
C11_ExactFirstOccurrence ==
    mpc \in {"merged", "remerged"} =>
        LET cs == ConcatField(rs, "concepts")
            ts == ConcatField(rs, "terms")
        IN  /\ merged.concepts = AtIndices(cs, FirstOccurrences(cs, "name"), 1)
            /\ merged.terms = AtIndices(ts, FirstOccurrences(ts, "term"), 1)
            /\ \A i, j \in 1..Len(merged.concepts) :
                   i # j => merged.concepts[i].name # merged.concepts[j].name
            /\ \A i, j \in 1..Len(merged.terms) :
                   i # j => merged.terms[i].term # merged.terms[j].term

\* "abc" is at 0.80 with "ab" and is kept; the second "ab" is dropped
C11_SimilarNameKept ==
    /\ mpc = "merged"
    /\ ConcatField(rs, "concepts")
           = <<Concept(Txt_ab), Concept(Txt_abc), Concept(Txt_ab)>>
    /\ ~RatioBelow80(Txt_abc, Txt_ab)
    /\ merged.concepts = <<Concept(Txt_ab), Concept(Txt_abc)>>

(* C12: the tldr of merge_results(rs) is an input tldr at least as long as  *)
(* every input tldr, the earliest of that length; it is empty exactly when  *)
(* every input tldr is empty; and merge_results([]) is the empty result.    *)
C12_LongestTldrWins ==
    mpc \in {"merged", "remerged"} =>
        /\ rs = <<>> => merged = EmptyResult
        /\ merged.tldr = <<>> <=> \A i \in 1..Len(rs) : rs[i].tldr = <<>>
        /\ merged.tldr # <<>> =>
               \E i \in 1..Len(rs) :
                   /\ merged.tldr = rs[i].tldr
                   /\ \A j \in 1..Len(rs) :
                          /\ Len(rs[j].tldr) <= Len(rs[i].tldr)
                          /\ j < i => Len(rs[j].tldr) < Len(rs[i].tldr)

\* Two tldrs of the same length: the first chunk's is the merged one
C12_TieGoesToEarliest ==
    /\ mpc = "merged"
    /\ Len(rs) = 2
    /\ rs[1].tldr = Txt_AB
    /\ rs[2].tldr = Txt_ab
    /\ merged.tldr = Txt_AB

\* The content of the first closed block of t that opens with the pieces
\* of `opening`, between the opening and the next fence, as <<content>>;
\* <<>> when t has no such block
FirstClosedBlock(t, opening) ==
    LET opens == {p \in 1..(Len(t) - Len(opening) + 1) :
                     SubSeq(t, p, p + Len(opening) - 1) = opening}
    IN  IF opens = {} THEN <<>>
        ELSE LET p == CHOOSE x \in opens : \A y \in opens : x <= y
                 closes == {q \in (p + Len(opening))..Len(t) : t[q] = Fence}
             IN  IF closes = {} THEN <<>>
                 ELSE LET q == CHOOSE x \in closes : \A y \in closes : x <= y
                      IN  <<SubSeq(t, p + Len(opening), q - 1)>>

(* C13: extract_json_block takes its steps in order, without fallback: when *)
(* the text has a closed fenced block tagged json whose content is not      *)
(* valid JSON it raises the decode error, whatever a later block or the raw *)
(* text holds; and when it has no such tagged block and its first closed    *)
(* fenced block is not valid JSON it raises as well.                        *)
C13_NoFallback ==
    jpc \in {"extracted", "decoded"} =>
        LET t == Strip(jtext)
            tagged == FirstClosedBlock(t, <<Fence, Tag>>)
            plain == FirstClosedBlock(t, <<Fence>>)
        IN  /\ (tagged # <<>> /\ json_loads(tagged[1]) = NoObject)
                   => jout = JSONDecodeError
            /\ (tagged = <<>> /\ plain # <<>>
                    /\ json_loads(plain[1]) = NoObject)
                   => jout = JSONDecodeError

\* The raw text is a valid JSON string; the tagged block inside it is empty
C13_RawTextWouldParse ==
    /\ jpc = "extracted"
    /\ jtext = <<Quote, Fence, Tag, Fence, Quote>>
    /\ json_loads(jtext) = JsonStr(<<Fence, Tag, Fence>>)
    /\ jout = JSONDecodeError

(* C14: for every object obj, extract_json_block on json.dumps(obj) inside  *)
(* a fence tagged json returns json.dumps(obj), and decoding what it        *)
(* returned gives obj again, also when a string of obj holds a run of three *)
(* backticks.                                                               *)
C14_FencedRoundTrip ==
    jobj # NoObject =>
        /\ jpc \in {"extracted", "decoded"} =>
               jout = Returned(json_dumps(jobj))
        /\ jpc = "decoded" => jdecoded = jobj

\* v holds one of the role and organization nouns as a whole word, in any
\* letter case
HasRoleNoun(v) ==
    \E w \in BadOwnerWords :
        \E i \in 1..(Len(v) - Len(w) + 1) :
            /\ Lower(SubSeq(v, i, i + Len(w) - 1)) = w
            /\ (i = 1 \/ ~IsWordChar(v[i - 1]))
            /\ (i + Len(w) - 1 = Len(v) \/ ~IsWordChar(v[i + Len(w)]))

\* Owner c is what the cleanup may leave of owner o
OwnerCleaned(o, c) ==
    /\ HasRoleNoun(o) => c = <<>>
    /\ (o = Lower(o) /\ o \notin {Str_user, Str_assistant}) => c = <<>>
    /\ o \in {Own_Daniel, Str_user} => c = o

(* C15: after cleanup the owner of every Decision, Question and ActionItem  *)
(* whose original owner holds a role or organization noun as a whole word,  *)
(* in any letter case, is empty, and so is every owner that was entirely    *)
(* lowercase except "user" and "assistant"; "Daniel" and "user" are         *)
(* unchanged.                                                               *)
C15_RoleOwnersBlanked ==
    clpc = "done" =>
        /\ \A i \in 1..Len(cresult.decisions) :
               OwnerCleaned(cresult.decisions[i].owner,
                            cleaned.decisions[i].owner)
        /\ \A i \in 1..Len(cresult.questions) :
               OwnerCleaned(cresult.questions[i].owner,
                            cleaned.questions[i].owner)
        /\ \A i \in 1..Len(cresult.action_items) :
               OwnerCleaned(cresult.action_items[i].owner,
                            cleaned.action_items[i].owner)

\* v occurs verbatim in t
OccursIn(v, t) ==
    \E i \in 1..(Len(t) - Len(v) + 1) : SubSeq(t, i, i + Len(v) - 1) = v

(* C16 as stated: after cleanup, for every transcript, each Decision.date   *)
(* and each ActionItem.deadline is empty or occurs verbatim in the          *)
(* transcript.                                                              *)
C16_DatesGrounded ==
    clpc = "done" =>
        /\ \A i \in 1..Len(cleaned.decisions) :
               \/ cleaned.decisions[i].date = <<>>
               \/ OccursIn(cleaned.decisions[i].date, ctranscript)
        /\ \A i \in 1..Len(cleaned.action_items) :
               \/ cleaned.action_items[i].deadline = <<>>
               \/ OccursIn(cleaned.action_items[i].deadline, ctranscript)

\* Date c is what the cleanup makes of date v: v itself when it occurs in
\* the transcript or no transcript was given, else the empty string
DateCleaned(v, c) ==
    c = (IF ctranscript = <<>> \/ OccursIn(v, ctranscript) THEN v ELSE <<>>)

(* C16 as the code has it: after cleanup with a non-empty transcript each   *)
(* Decision.date and ActionItem.deadline is the original value when that    *)
(* occurs verbatim in the transcript and empty otherwise; with an empty     *)
(* transcript the dates are left as they were.                              *)
C16_DatesGroundedGivenTranscript ==
    clpc = "done" =>
        /\ \A i \in 1..Len(cresult.decisions) :
               DateCleaned(cresult.decisions[i].date,
                           cleaned.decisions[i].date)
        /\ \A i \in 1..Len(cresult.action_items) :
               DateCleaned(cresult.action_items[i].deadline,
                           cleaned.action_items[i].deadline)
        /\ ctranscript # <<>> =>
               /\ \A i \in 1..Len(cleaned.decisions) :
                      \/ cleaned.decisions[i].date = <<>>
                      \/ OccursIn(cleaned.decisions[i].date, ctranscript)
               /\ \A i \in 1..Len(cleaned.action_items) :
                      \/ cleaned.action_items[i].deadline = <<>>
                      \/ OccursIn(cleaned.action_items[i].deadline,
                                  ctranscript)

\* A date that the transcript does not hold is blanked
C16_UngroundedDateBlanked ==
    /\ clpc = "done"
    /\ ctranscript = Tr_1
    /\ Len(cresult.decisions) >= 1
    /\ cresult.decisions[1].date = Txt_ab
    /\ cleaned.decisions[1].date = <<>>
    /\ cleaned.action_items[1].deadline = <<>>

\* The maximal runs of word characters of v from position i on, `run` being
\* the run that ends at position i - 1
RECURSIVE WordRuns(_, _, _)
WordRuns(v, i, run) ==
    IF i > Len(v) THEN {run}
    ELSE IF IsWordChar(v[i]) THEN WordRuns(v, i + 1, Append(run, v[i]))
    ELSE {run} \cup WordRuns(v, i + 1, <<>>)

\* The distinct lower-cased words of v of four characters or more
QualifyingWords(v) == {Lower(w) : w \in {r \in WordRuns(v, 1, <<>>) : Len(r) >= 4}}

\* The notes of the inputs that the filler patterns match
CleanupFillers == {Rat_Na, Rat_NoDebate}

\* Note c is what the cleanup with a non-empty transcript makes of note v
NoteCleaned(v, c) ==
    LET ws == QualifyingWords(v)
        n == Cardinality(ws)
        g == Cardinality({w \in ws : OccursIn(w, Lower(ctranscript))})
    IN  IF v \in CleanupFillers THEN c = <<>>
        ELSE c = (IF n = 0 \/ 5 * g >= 3 * n THEN v ELSE <<>>)

(* C17: with a non-empty transcript, a Decision.rationale or                *)
(* Question.context that survived the filler stripping is kept in full when *)
(* of its n distinct lower-cased words of four characters or more the g     *)
(* that occur in the lower-cased transcript satisfy 5*g >= 3*n, or n = 0,   *)
(* and is empty otherwise; it is never cut.                                 *)
C17_AllOrNothingGrounding ==
    (clpc = "done" /\ ctranscript # <<>>) =>
        /\ \A i \in 1..Len(cresult.decisions) :
               NoteCleaned(cresult.decisions[i].rationale,
                           cleaned.decisions[i].rationale)
        /\ \A i \in 1..Len(cresult.questions) :
               NoteCleaned(cresult.questions[i].context,
                           cleaned.questions[i].context)

\* Three of five words are in the transcript: exactly 60%, kept in full
C17_ExactlySixtyPercentKept ==
    /\ clpc = "done"
    /\ ctranscript = Tr_3
    /\ Len(cresult.decisions) >= 1
    /\ cresult.decisions[1].rationale = Rat_5
    /\ Cardinality(QualifyingWords(Rat_5)) = 5
    /\ cleaned.decisions[1].rationale = Rat_5
    /\ cleaned.questions[1].context = Rat_5

\* The 0-based positions of the paragraph breaks that lie whole in the
\* window of the chunk that starts at st, strictly after st
BreaksInWindow(t, ms, st) ==
    {p \in Max(st, st + ms - (ms \div 4))..(st + ms - 2) :
        p > st /\ t[p + 1] = NL /\ t[p + 2] = NL}

(* C18: a chunk that does not reach the end of the text ends right after    *)
(* the last paragraph break that lies whole in the window from              *)
(* max(start, start + max_size - max_size // 4) to start + max_size and     *)
(* strictly after start, and at start + max_size when the window holds no   *)
(* such break.                                                              *)
C18_ParagraphAlignedEnds ==
    [][(cpc = "loop" /\ start + max_size < Len(text)) =>
          LET end == start + Len(chunks'[Len(chunks')])
              breaks == BreaksInWindow(text, max_size, start)
          IN  /\ Len(chunks') = Len(chunks) + 1
              /\ chunks'[Len(chunks')] = SubSeq(text, start + 1, end)
              /\ IF breaks = {}
                 THEN end = start + max_size
                 ELSE \E p \in breaks :
                          /\ \A q \in breaks : q <= p
                          /\ end = p + 2]_vars

\* The window of the first chunk holds two breaks; the chunk ends after the
\* second one
C18_EndsAfterLastBreak ==
    /\ cpc = "loop"
    /\ Len(chunks) = 1
    /\ Cardinality(BreaksInWindow(text, max_size, 0)) = 2
    /\ \E p \in BreaksInWindow(text, max_size, 0) :
           /\ Len(chunks[1]) = p + 2
           /\ p - 1 \in BreaksInWindow(text, max_size, 0)

-----------------------------------------------------------------------------
(* DedupStore lookups and persistence *)

\* The most recent record for hash h that store i holds: its own last
\* record call for h, else the one it loaded when it was opened;
\* <<output_file, schema_version>>, or <<>> when h was never recorded
MostRecentRecord(i, h) ==
    IF recorded[i][h] # <<>> THEN recorded[i][h]
    ELSE LET entry == DictGet(loaded[i], h)
         IN  IF entry = <<>> THEN <<>>
             ELSE <<entry[1].output_file, entry[1].schema_version>>

(* C19: is_processed(h, v) returns output file o exactly when the most     *)
(* recent record for h was record(h, o, v); it returns None for a hash     *)
(* never recorded and for a hash whose stored schema version differs from  *)
(* v.                                                                      *)
C19_LookupMatchesLastRecord ==
    answer # NoAnswer =>
        LET last == MostRecentRecord(answer.inst, answer.hash)
        IN  /\ \A o \in OutputFiles :
                   answer.out = <<o>> <=> last = <<o, answer.version>>
            /\ last = <<>> => answer.out = <<>>
            /\ (last # <<>> /\ last[2] # answer.version) => answer.out = <<>>

\* A hash recorded twice on the one store is asked for under the schema
\* version of its first record, after the second record changed the version
C19_OldVersionUnanswerable ==
    /\ opened = {"A"}
    /\ nrecords = 2
    /\ Len(stores["A"]) = 1
    /\ answer.inst = "A"
    /\ answer.hash = "h1"
    /\ answer.version = "1.0"
    /\ recorded["A"]["h1"] = <<"o2.md", "1.1">>
    /\ answer.out = <<>>

(* C20: after a record call the content of .dedup.json equals the          *)
(* in-memory map of the store that made the call, and a store opened       *)
(* afterwards on the same directory answers is_processed as that store     *)
(* does for every hash and schema version.                                 *)
C20_FileEqualsMemory ==
    synced # {} =>
        /\ dfile # NoFile
        /\ \A i \in synced :
               /\ json_load_store(dfile) = stores[i]
               /\ \A j \in synced, h \in Hashes, v \in SchemaVersions :
                      is_processed(stores[i], h, v) =
                          is_processed(stores[j], h, v)

\* Store B was opened after two hashes were recorded and answers for one
\* of them
C20_ReopenedStoreAnswers ==
    /\ synced = {"A", "B"}
    /\ recorded["B"] = [h \in Hashes |-> <<>>]
    /\ Len(stores["B"]) = 2
    /\ answer.inst = "B"
    /\ answer.out # <<>>

-----------------------------------------------------------------------------
(* Coverage of the chunks *)

\* The position after the last character of chunk k
ChunkEndOf(k) == starts[k] + Len(chunks[k])

(* C26: for max_size >= 1 and len(text) > max_size every chunk is a        *)
(* non-empty contiguous substring of text of at most max_size characters,  *)
(* the first chunk starts at 0, every later chunk starts at or before the  *)
(* end of the chunk before it, and the returned chunks reach the end of    *)
(* the text.                                                               *)
C26_ChunksCoverText ==
    (max_size >= 1 /\ Len(text) > max_size /\ cpc \in {"loop", "done"}) =>
        /\ Len(starts) = Len(chunks)
        /\ \A k \in 1..Len(chunks) :
               /\ chunks[k] # <<>>
               /\ Len(chunks[k]) <= max_size
               /\ starts[k] >= 0
               /\ ChunkEndOf(k) <= Len(text)
               /\ chunks[k] = SubSeq(text, starts[k] + 1, ChunkEndOf(k))
               /\ k = 1 => starts[k] = 0
               /\ k > 1 => starts[k] <= ChunkEndOf(k - 1)
        /\ cpc = "done" =>
               /\ chunks # <<>>
               /\ ChunkEndOf(Len(chunks)) = Len(text)

\* Three chunks were returned, the second overlapping the first
C26_ThreeOverlappingChunks ==
    /\ cpc = "done"
    /\ max_size >= 2
    /\ Len(text) > max_size
    /\ Len(chunks) = 3
    /\ starts[2] < ChunkEndOf(1)
    /\ ChunkEndOf(3) = Len(text)

\* Chunk k is the first chunk that reaches the end of the text
FirstToReachEnd(k) ==
    /\ ChunkEndOf(k) = Len(text)
    /\ \A j \in 1..(k - 1) : ChunkEndOf(j) # Len(text)

(* C27: when len(text) > max_size and the first chunk that reaches the end *)
(* of the text is longer than overlap > 0, the loop goes on from           *)
(* len(text) - overlap, appends exactly one more chunk, the last overlap   *)
(* characters of the text, and then ends.                                  *)
C27_RedundantTailChunk ==
    (Len(text) > max_size /\ cpc \in {"loop", "done"}) =>
        \A k \in 1..Len(chunks) :
            (FirstToReachEnd(k) /\ overlap > 0 /\ Len(chunks[k]) > overlap) =>
                /\ Len(chunks) <= k + 1
                /\ Len(chunks) = k =>
                       /\ cpc = "loop"
                       /\ start = Len(text) - overlap
                /\ Len(chunks) = k + 1 =>
                       /\ starts[k + 1] = Len(text) - overlap
                       /\ starts[k + 1] >= starts[k]
                       /\ chunks[k + 1] =
                              SubSeq(text, Len(text) - overlap + 1, Len(text))
                       /\ start = Len(text)

\* The second chunk reached the end of the text and a third chunk, the last
\* two characters, was returned after it
C27_TailChunkReturned ==
    /\ cpc = "done"
    /\ overlap = 2
    /\ Len(chunks) = 3
    /\ FirstToReachEnd(2)
    /\ Len(chunks[2]) > overlap
    /\ chunks[3] = SubSeq(text, Len(text) - 1, Len(text))

-----------------------------------------------------------------------------
(* The frame of cleanup_result *)

\* After the cleanup the field is what it was or the empty string
KeptOrBlanked(after, before) == after = before \/ after = <<>>

(* C28: cleanup_result adds, removes and reorders no item and changes no   *)
(* summary, title, text, description, name or term, no idea, concept or    *)
(* term entry and not the tldr; each owner, rationale, context, date and   *)
(* deadline is afterwards its original value or the empty string; with an  *)
(* empty transcript the dates and deadlines are as they were.              *)
C28_CleanupFrame ==
    clpc = "done" =>
        /\ Len(cleaned.decisions) = Len(cresult.decisions)
        /\ Len(cleaned.questions) = Len(cresult.questions)
        /\ Len(cleaned.action_items) = Len(cresult.action_items)
        /\ cleaned.ideas = cresult.ideas
        /\ cleaned.concepts = cresult.concepts
        /\ cleaned.terms = cresult.terms
        /\ cleaned.tldr = cresult.tldr
        /\ \A i \in 1..Len(cresult.decisions) :
               LET after == cleaned.decisions[i]
                   before == cresult.decisions[i]
               IN  /\ after.summary = before.summary
                   /\ KeptOrBlanked(after.owner, before.owner)
                   /\ KeptOrBlanked(after.rationale, before.rationale)
                   /\ KeptOrBlanked(after.date, before.date)
                   /\ ctranscript = <<>> => after.date = before.date
        /\ \A i \in 1..Len(cresult.questions) :
               LET after == cleaned.questions[i]
                   before == cresult.questions[i]
               IN  /\ after.text = before.text
                   /\ KeptOrBlanked(after.owner, before.owner)
                   /\ KeptOrBlanked(after.context, before.context)
        /\ \A i \in 1..Len(cresult.action_items) :
               LET after == cleaned.action_items[i]
                   before == cresult.action_items[i]
               IN  /\ after.description = before.description
                   /\ KeptOrBlanked(after.owner, before.owner)
                   /\ KeptOrBlanked(after.deadline, before.deadline)
                   /\ ctranscript = <<>> => after.deadline = before.deadline

\* The result with two items in every category was cleaned against a
\* transcript: an owner, a rationale and a date were blanked, the other
\* date was kept
C28_MixedResultCleaned ==
    /\ clpc = "done"
    /\ cresult = MixedResult
    /\ ctranscript = Tr_1
    /\ cleaned.decisions[1].date = <<>>
    /\ cleaned.decisions[1].rationale = <<>>
    /\ cleaned.decisions[2].owner = Str_user
    /\ cleaned.decisions[2].date = Rat_1
    /\ cleaned.questions[2].owner = <<>>
    /\ cleaned # cresult

-----------------------------------------------------------------------------
(* The files of the DedupStore during and after record *)

(* C21: at every step of a record call .dedup.json is absent or holds a    *)
(* whole JSON object, the content it had before the call or the new        *)
(* content, never a prefix of a text being written; once record has        *)
(* returned there is no .dedup.tmp.                                        *)
C21_AtomicSave ==
    /\ dfile = NoFile \/ IsCompleteJson(dfile)
    /\ spc = "saving" => dfile = fileBefore
    /\ (spc = "run" /\ writer # "none") =>
           dfile = json_dump_store(stores[writer])
    /\ spc = "run" => dtmp = NoFile

\* In the middle of the second record call .dedup.tmp holds one member of
\* two and no closing brace, while .dedup.json still holds the content of
\* the first call
C21_ReaderDuringWrite ==
    /\ spc = "saving"
    /\ nrecords = 2
    /\ Len(stores[writer]) = 2
    /\ Len(dtmp) = 1
    /\ ~IsCompleteJson(dtmp)
    /\ IsCompleteJson(dfile)
    /\ dfile = fileBefore
    /\ dfile # json_dump_store(stores[writer])

\* The hashes that are keys of the dict d
KeysOf(d) == {d[i].key : i \in 1..Len(d)}

(* C29: a store loads .dedup.json only when it is constructed and every    *)
(* record rewrites the file from the in-memory map of the store that made  *)
(* the call: after a record call the file holds the hashes that store      *)
(* loaded or recorded itself and no others, and so does every store        *)
(* opened afterwards; a hash another store recorded in between is lost.    *)
C29_LastSaveWinsWholeFile ==
    (spc = "run" /\ writer # "none") =>
        /\ \A i \in opened :
               KeysOf(stores[i]) =
                   KeysOf(loaded[i]) \cup
                       {h \in Hashes : recorded[i][h] # <<>>}
        /\ KeysOf(json_load_store(dfile)) =
               KeysOf(loaded[writer]) \cup
                   {h \in Hashes : recorded[writer][h] # <<>>}
        /\ \A j \in synced :
               KeysOf(stores[j]) = KeysOf(json_load_store(dfile))

\* Stores A and B were opened on the empty directory, A recorded h1 and
\* then B recorded h2; the file, and store C opened afterwards, hold h2 and
\* not h1
C29_LostUpdate ==
    /\ spc = "run"
    /\ writer = "B"
    /\ loaded["B"] = <<>>
    /\ recorded["A"]["h1"] # <<>>
    /\ recorded["B"] = [h \in Hashes |-> IF h = "h2" THEN <<"o2.md", "1.0">>
                                                    ELSE <<>>]
    /\ KeysOf(json_load_store(dfile)) = {"h2"}
    /\ "C" \in synced
    /\ KeysOf(stores["C"]) = {"h2"}
    /\ is_processed(stores["C"], "h1", "1.0") = <<>>
    /\ is_processed(stores["A"], "h1", "1.0") # <<>>

-----------------------------------------------------------------------------
(* The output writers *)

(* C22: while write_session_markdown, add_glossary_section or update_index *)
(* is writing, the target file holds its complete old content or the       *)
(* complete new content.                                                   *)
C22_WritersAtomic ==
    /\ opc \in {"markdown", "glossary"} =>
           mdfiles[otarget] \in {obefore[otarget], ocontent}
    /\ opc = "index" => indexfile \in {obefore, ocontent}

\* sum(entry["counts"][c] for entry in sessions)
RECURSIVE SumCounts(_, _)
SumCounts(sessions, c) ==
    IF sessions = <<>> THEN 0
    ELSE sessions[1].counts[c] + SumCounts(Tail(sessions), c)

(* C24: after n update_index calls on a directory that had no index.json,  *)
(* total_sessions = len(sessions) = n, the sessions are in call order,     *)
(* and every stats[category] is the sum of counts[category] over the       *)
(* sessions.                                                               *)
C24_IndexAccounting ==
    opc \notin {"index", "idle"} =>
        IF ixcalls = <<>> THEN indexfile = NoFile
        ELSE LET data == json_loads_index(indexfile)
             IN  /\ data.total_sessions = Len(ixcalls)
                 /\ Len(data.sessions) = Len(ixcalls)
                 /\ \A k \in 1..Len(ixcalls) :
                        /\ data.sessions[k].counts = Counts(ixcalls[k].result)
                        /\ data.sessions[k].output_file =
                               ixcalls[k].output_file
                 /\ \A c \in Categories :
                        data.stats[c] = SumCounts(data.sessions, c)

\* Three calls, with one, two and one decisions
C24_ThreeSessions ==
    /\ opc = "run"
    /\ Len(ixcalls) = 3
    /\ ixcalls[1].result = ResultA
    /\ ixcalls[2].result = ResultB
    /\ ixcalls[3].result = ResultA
    /\ json_loads_index(indexfile).total_sessions = 3
    /\ json_loads_index(indexfile).stats["decisions"] = 4

(* C30: two write_session_markdown calls in the same clock second return   *)
(* the same path and the content of the second call replaces that of the   *)
(* first; two calls in different seconds return different paths and the    *)
(* later call leaves the file of the earlier one as it was.                *)
C30_PathFromSecond ==
    /\ \A k \in 1..Len(mdcalls) :
           mdcalls[k].after[mdcalls[k].path] = mdcalls[k].content
    /\ \A i, j \in 1..Len(mdcalls) :
           i < j =>
               IF mdcalls[i].second = mdcalls[j].second
               THEN mdcalls[i].path = mdcalls[j].path
               ELSE /\ mdcalls[i].path # mdcalls[j].path
                    /\ mdcalls[j].after[mdcalls[i].path] =
                           mdcalls[j].before[mdcalls[i].path]

\* Two calls in the same second with different results: the file held the
\* content of the first call and holds that of the second
C30_SameSecondCollision ==
    /\ opc = "run"
    /\ Len(mdcalls) = 2
    /\ mdcalls[1].second = mdcalls[2].second
    /\ mdcalls[1].path = mdcalls[2].path
    /\ mdcalls[1].content # mdcalls[2].content
    /\ mdcalls[2].before[mdcalls[2].path] = mdcalls[1].content
    /\ mdfiles[mdcalls[2].path] = mdcalls[2].content

-----------------------------------------------------------------------------
(* The memory pipe *)

\* The contents of the items of one category that have a content
ContentsOf(category, items) ==
    SelectSeq([i \in 1..Len(items) |-> _format_content(category, items[i])],
              LAMBDA c : c # <<>>)

\* What is to be posted for a result: decisions, action items, concepts,
\* terms, ideas, questions
ExpectedPosts(result) ==
    ContentsOf("decision", result.decisions)
    \o ContentsOf("action_item", result.action_items)
    \o ContentsOf("concept", result.concepts)
    \o ContentsOf("term", result.terms)
    \o ContentsOf("idea", result.ideas)
    \o ContentsOf("question", result.questions)

\* The endpoint names a host (it is more than slashes) and the key is set
Configured == RStripSlash(memEndpoint) # <<>> /\ memKey # <<>>

(* C23: with endpoint and key configured pipe_to_memory makes one POST for *)
(* every item with a non-empty content, in the order decisions, action     *)
(* items, concepts, terms, ideas, questions, whatever the earlier POSTs    *)
(* did, and returns "complete" with stored + errors equal to the number of *)
(* POSTs; without the endpoint or the key it returns "skipped" and makes   *)
(* no POST.                                                                *)
C23_PipeIsolatesErrors ==
    LET expected == ExpectedPosts(memResult)
        posted == [i \in 1..Len(memPosts) |-> memPosts[i].content]
    IN  /\ Len(posted) <= Len(expected)
        /\ posted = SubSeq(expected, 1, Len(posted))
        /\ mempc = "done" =>
               IF Configured
               THEN /\ memReturned.status = "complete"
                    /\ posted = expected
                    /\ memReturned.stored + memReturned.errors = Len(memPosts)
                    /\ memReturned.stored =
                           Cardinality({i \in 1..Len(memPosts) :
                                           memPosts[i].outcome = "ok"})
               ELSE /\ memReturned.status = "skipped"
                    /\ memPosts = <<>>

\* Five POSTs were made for the seven items; the first raised, the second
\* was refused, the others were stored
C23_ErrorsThenStored ==
    /\ mempc = "done"
    /\ memResult = PipeResultFull
    /\ Len(memPosts) = 5
    /\ memPosts[1].outcome = "exception"
    /\ memPosts[2].outcome = "http_error"
    /\ memPosts[2].category = "action_item"
    /\ memPosts[5].category = "question"
    /\ memReturned = [status |-> "complete", stored |-> 3, errors |-> 2]

-----------------------------------------------------------------------------
(* parse_file on an unknown extension *)

\* The suffix is none of .jsonl, .txt, .md, .markdown
UnknownSuffix ==
    Lower(psuffix) \notin {Str_jsonl, Str_txt, Str_md, Str_markdown}

\* The messages the JSONL parse obtains from the lines: those of the
\* objects with a user or assistant message that has a text
MessageLines ==
    {i \in 1..Len(pfile) : ParseLine(pfile[i]).does = "message"}

(* C25: parse_file on an existing file with an unknown extension returns   *)
(* the JSONL parse when that parse yields a message and otherwise the      *)
(* plain-text parse (format "text", the whole content), also when lines    *)
(* are JSON values that are no objects, and raises no error.               *)
C25_UnknownExtensionFallsBack ==
    (parsepc = "done" /\ pexists /\ putf8 /\ UnknownSuffix) =>
        /\ pout.raised = "none"
        /\ IF MessageLines # {}
           THEN /\ pout.metadata.format = "jsonl"
                /\ pout.metadata.messages = Cardinality(MessageLines)
           ELSE /\ pout.metadata.format = "text"
                /\ pout.text = FileText(pfile)

=============================================================================
